---------------------------- MODULE Spec2Model ----------------------------
(***************************************************************************)
(* State-machine model of windirstat's BlockingQueue<CItem*>               *)
(* (src/windirstat/BlockingQueue.h): one mutex, two condition variables,   *)
(* a pool of worker threads running the scan callback, the shell thread    *)
(* that suspends, resumes and cancels, and the scan coordinator thread     *)
(* that pushes the roots, starts the workers and waits for completion.     *)
(*                                                                         *)
(* Granularity.  Everything a thread does while it holds m_Mutex is one    *)
(* step, except that a condition-variable wait whose predicate reads       *)
(* m_Cancelled is split into "predicate evaluated to false" and "blocked": *)
(* CancelExecution writes m_Cancelled and notifies WITHOUT the mutex, so   *)
(* its write and its notify_all can fall between the two.  The unlocked    *)
(* read of m_Suspended at the top of WaitIfSuspended is a step of its own. *)
(***************************************************************************)
EXTENDS Integers, Sequences, FiniteSets, TLC

\* ------------------------------------------------------------------ bounds
MaxWorkers == 2
MaxTasks == 2
MaxShellCalls == 2

\* unsigned int m_WorkersWaiting / m_TotalWorkerThreads are 32 bits wide.
\* A value is held as its 32-bit pattern read in two's complement (2^32 - 1
\* is -1): ++, -- and == act on the patterns exactly as on the unsigned
\* values, and the patterns fit the checker's integers.
IntMax == 2147483647
IntMin == (0 - 2147483647) - 1

Workers == 1..MaxWorkers
Shell == MaxWorkers + 1
Coord == MaxWorkers + 2
Threads == 1..(MaxWorkers + 2)
NoThread == 0
NoTask == 0
Tasks == 1..MaxTasks

VARIABLES
    m_Threads,            \* std::vector<std::thread>: the workers it holds
    m_Queue,              \* std::deque<T>, front first
    m_Mutex,              \* owner of m_Mutex, NoThread when free
    m_Pushed,             \* threads blocked in m_Pushed.wait
    m_Waiting,            \* threads blocked in m_Waiting.wait
    m_TotalWorkerThreads,
    m_WorkersWaiting,
    m_Started,
    m_Suspended,
    m_Cancelled,
    pc,                   \* position of every thread
    cur,                  \* the task a worker got from its last Pop
    pushed,               \* number of Push calls so far (task ids 1..pushed)
    handed,               \* handed[t]: how many Pop calls returned task t
    wfcResult,            \* result of the coordinator's last wait
    quiesced,             \* SuspendExecution returned, no resume/cancel since
    shellCalls            \* SuspendExecution calls, and ResumeExecution
                          \* calls on a queue that is not suspended, so far

qvars == <<m_Queue, m_TotalWorkerThreads, m_WorkersWaiting, m_Started,
           m_Suspended, m_Cancelled>>
\* State of the CSV codec (src/windirstat/CsvLoader.cpp): the item tree handed
\* to SaveResults, the file, and the locals of SaveResults and LoadResults.
VARIABLES
    tree,                 \* the items of the tree to save, root first
    ShowColumnOwner,      \* COptions::ShowColumnOwner
    outf,                 \* the lines of the file
    queue,                \* SaveResults: std::stack<CItem*> queue, top last
    written,              \* SaveResults: the items in the order of their rows
    edit,                 \* what was done to the file after it was saved
    linesRead,            \* LoadResults: lines taken from reader so far
    headerProcessed,      \* LoadResults
    orderMap,             \* column of every field, -1 when absent
    newroot,              \* LoadResults: index into items, 0 for nullptr
    items,                \* LoadResults: the CItem objects created, in order
    parentMap,            \* LoadResults: path -> index into items
    cpc,                  \* position of the codec
    result                \* what LoadResults returned

qallvars == <<m_Threads, m_Queue, m_Mutex, m_Pushed, m_Waiting,
              m_TotalWorkerThreads, m_WorkersWaiting, m_Started, m_Suspended,
              m_Cancelled, pc, cur, pushed, handed, wfcResult, quiesced,
              shellCalls>>
cvars == <<tree, ShowColumnOwner, outf, queue, written, edit,
           linesRead, headerProcessed, orderMap, newroot, items, parentMap,
           cpc, result>>
\* The main frame and the document it shows
VARIABLES
    frame,                \* CMainFrame: its progress and taskbar members
    m_RootItem,           \* CDirStatDoc::m_RootItem: NoItem, or its progress
    ExcludeVolumeMountPoints,   \* COptions
    ExcludeJunctions,           \* COptions
    ExcludeSymbolicLinks        \* COptions

fvars == <<frame, m_RootItem, ExcludeVolumeMountPoints, ExcludeJunctions,
           ExcludeSymbolicLinks>>
\* One line of a file under the field splitter of LoadResults
VARIABLES
    sline,                \* linebuf, the line as std::getline delivers it
    sfields,              \* fields, the vector the splitter fills
    spc                   \* "idle", "line", "fields" or "nullptr"

svars == <<sline, sfields, spc>>
\* CMainFrame::InvokeInMessageThread and the threads that call it
VARIABLES
    ipc,                  \* ipc[t]: where thread t stands
    sentMessages,         \* WM_CALLBACKUI messages sent to the frame and not
                          \* yet handled, each the thread whose callback
                          \* lParam points to
    handling,             \* the thread whose message OnCallbackRequest handles
    invoked,              \* invoked[t]: InvokeInMessageThread calls of t
    executed,             \* executed[t]: runs of callbacks of t that ended
    ranOn                 \* ranOn[t]: <<thread, route>> of each run of a
                          \* callback of t

ivars == <<ipc, sentMessages, handling, invoked, executed, ranOn>>
uvars == <<fvars, svars, ivars>>
vars == <<qallvars, cvars, uvars>>

\* ------------------------------------------------------------- primitives
\* Variant of Dec: the counter is left as it is.
DecKeeps(x) == x
Inc(x) == IF x = IntMax THEN IntMin ELSE x + 1
Dec(x) == IF x = IntMin THEN IntMax ELSE x - 1

AllThreadsIdlingWith(ww) == m_TotalWorkerThreads = ww
AllThreadsIdling == AllThreadsIdlingWith(m_WorkersWaiting)

\* Variant of PopPred: the wait of Pop ignores the suspension.
PopPredIgnoresSuspend == m_Queue # <<>> \/ m_Cancelled
\* predicate of m_Pushed.wait in Pop
PopPred == (~m_Suspended /\ m_Queue # <<>>) \/ m_Cancelled
\* Variant of WisPred: the wait of WaitIfSuspended ends at the first wake-up.
WisPredFirstWake == TRUE
\* predicate of m_Waiting.wait in WaitIfSuspended
WisPred == ~m_Suspended \/ m_Cancelled
\* Variant of WfcPred: completion is reported without looking at the workers.
WfcPredIgnoresWorkers ==
    (m_Started /\ ~m_Suspended /\ m_Queue = <<>>) \/ m_Cancelled
\* predicate of m_Waiting.wait in WaitForCompletionOrCancellation
WfcPred == (m_Started /\ ~m_Suspended /\ AllThreadsIdling /\ m_Queue = <<>>)
           \/ m_Cancelled

\* Variant of PushFront: the new task goes to the back of the deque.
PushBack(q, v) == q \o <<v>>
\* Variant of PopFront: the front element stays in the deque.
PopFrontKeeps(q) == q
\* std::deque operations used by the queue
PushFront(q, v) == <<v>> \o q
Front(q) == Head(q)
PopFront(q) == Tail(q)

\* What "return i" yields in Pop: i is a reference to the element that
\* pop_front has just destroyed.  For T = CItem* the destructor is trivial,
\* the deque keeps the block, and m_Mutex is still held, so the only value
\* the read can produce is the one that was at the front.
ReadDangling(q) == {Front(q)}

\* Variant of NotifyOne: the notification is left out.
NotifyNone(cv) == {cv}
\* notify_one: wakes one of the blocked threads, if there is any
NotifyOne(cv) == IF cv = {} THEN {{}} ELSE {cv \ {t} : t \in cv}

\* The codec before any file is saved or loaded.
CsvIdle ==
    /\ tree = <<>>
    /\ ShowColumnOwner = FALSE
    /\ outf = <<>>
    /\ queue = <<>>
    /\ written = <<>>
    /\ edit = <<"none">>
    /\ linesRead = 0
    /\ headerProcessed = FALSE
    /\ orderMap = <<>>
    /\ newroot = 0
    /\ items = <<>>
    /\ parentMap = <<>>
    /\ cpc = "idle"
    /\ result = "none"

\* TBPFLAG, the progress states of a taskbar button
TBPF_NOPROGRESS == 0
TBPF_INDETERMINATE == 1
TBPF_NORMAL == 2
TBPF_PAUSED == 8

\* no item: a null CItem pointer
NoItem == [none |-> TRUE]
\* what the title prefix shows when it shows no percentage
NoPercent == 0 - 1

\* The main frame as constructed, without document: no progress shown, no
\* taskbar list yet.
FrameConstructed ==
    [m_ProgressRange |-> 0, m_ProgressPos |-> 0, m_ProgressVisible |-> FALSE,
     m_Progress |-> FALSE, m_Pacman |-> FALSE, m_TaskbarList |-> FALSE,
     m_TaskbarButtonState |-> TBPF_INDETERMINATE,
     m_TaskbarButtonPreviousState |-> TBPF_INDETERMINATE,
     m_ScanSuspend |-> FALSE, m_WorkingItem |-> FALSE,
     titlePercent |-> NoPercent]

FrameIdle ==
    /\ frame = FrameConstructed
    /\ m_RootItem = NoItem
    /\ ExcludeVolumeMountPoints = FALSE
    /\ ExcludeJunctions = FALSE
    /\ ExcludeSymbolicLinks = FALSE

\* the frame as created: the message loop runs, no callback was passed
InvokeIdle ==
    /\ ipc = [t \in Workers \cup {Shell} |->
                 IF t = Shell THEN "loop" ELSE "idle"]
    /\ sentMessages = <<>>
    /\ handling = NoThread
    /\ invoked = [t \in Workers \cup {Shell} |-> 0]
    /\ executed = [t \in Workers \cup {Shell} |-> 0]
    /\ ranOn = [t \in Workers \cup {Shell} |-> {}]

\* no line is under the splitter
SplitIdle ==
    /\ sline = <<>>
    /\ sfields = <<>>
    /\ spc = "idle"

\* The queue as constructed: the member initialisers of lines 11-20, no
\* thread started yet.
QueueInit ==
    /\ m_Threads = {}
    /\ m_Queue = <<>>
    /\ m_Mutex = NoThread
    /\ m_Pushed = {}
    /\ m_Waiting = {}
    /\ m_TotalWorkerThreads = 1
    /\ m_WorkersWaiting = 0
    /\ m_Started = FALSE
    /\ m_Suspended = FALSE
    /\ m_Cancelled = FALSE
    /\ pc = [t \in Threads |->
               IF t = Shell THEN "s_idle"
               ELSE IF t = Coord THEN "c_idle" ELSE "none"]
    /\ cur = [w \in Workers |-> NoTask]
    /\ pushed = 0
    /\ handed = [t \in Tasks |-> 0]
    /\ wfcResult = "none"
    /\ quiesced = FALSE
    /\ shellCalls = 0

Init == QueueInit /\ CsvIdle /\ FrameIdle /\ SplitIdle /\ InvokeIdle

\* ---------------------------------------------------------------- workers
\* Variant of PopProceed: a cancelled Pop still drains the queue and throws
\* only when the queue is empty.
PopProceedDrains(w, ww) ==
    /\ m_WorkersWaiting' = Dec(ww)
    /\ m_Mutex' = NoThread
    /\ IF m_Cancelled /\ m_Queue = <<>>
       THEN /\ pc' = [pc EXCEPT ![w] = "catch"]
            /\ UNCHANGED <<m_Queue, m_Started, cur, handed>>
       ELSE /\ m_Started' = TRUE
            /\ m_Queue' = Tail(m_Queue)
            /\ cur' = [cur EXCEPT ![w] = Head(m_Queue)]
            /\ handed' = [handed EXCEPT ![Head(m_Queue)] = @ + 1]
            /\ pc' = [pc EXCEPT ![w] = "task"]

\* Variant of PopProceed: m_Started is set before the cancellation is looked
\* at, so a Pop that throws sets it too.
PopProceedStartsFirst(w, ww) ==
    /\ m_WorkersWaiting' = Dec(ww)
    /\ m_Mutex' = NoThread
    /\ m_Started' = TRUE
    /\ IF m_Cancelled
       THEN /\ pc' = [pc EXCEPT ![w] = "catch"]
            /\ UNCHANGED <<m_Queue, cur, handed>>
       ELSE \E v \in ReadDangling(m_Queue) :
            /\ m_Queue' = PopFront(m_Queue)
            /\ cur' = [cur EXCEPT ![w] = v]
            /\ handed' = [handed EXCEPT ![v] = @ + 1]
            /\ pc' = [pc EXCEPT ![w] = "task"]

\* Pop, from the point where the wait predicate has been found true with the
\* counter at ww: lines 79-91.
PopProceed(w, ww) ==
    /\ m_WorkersWaiting' = Dec(ww)
    /\ m_Mutex' = NoThread
    /\ IF m_Cancelled
       THEN /\ pc' = [pc EXCEPT ![w] = "catch"]
            /\ UNCHANGED <<m_Queue, m_Started, cur, handed>>
       ELSE \E v \in ReadDangling(m_Queue) :
            /\ m_Started' = TRUE
            /\ m_Queue' = PopFront(m_Queue)
            /\ cur' = [cur EXCEPT ![w] = v]
            /\ handed' = [handed EXCEPT ![v] = @ + 1]
            /\ pc' = [pc EXCEPT ![w] = "task"]

\* One evaluation of the predicate of m_Pushed.wait, mutex held.
PopCheck(w, ww) ==
    IF PopPred
    THEN PopProceed(w, ww)
    ELSE /\ m_WorkersWaiting' = ww
         /\ m_Mutex' = w
         /\ pc' = [pc EXCEPT ![w] = "pop_block"]
         /\ UNCHANGED <<m_Queue, m_Started, cur, handed>>

\* Pop, lines 72-78: lock, count the worker as waiting, notify, first check.
PopEnter(w) ==
    /\ pc[w] = "pop"
    /\ m_Mutex = NoThread
    /\ m_Waiting' = {}
    /\ PopCheck(w, Inc(m_WorkersWaiting))
    /\ UNCHANGED <<m_Threads, m_Pushed, m_TotalWorkerThreads, m_Suspended,
                   m_Cancelled, pushed, wfcResult, quiesced, shellCalls,
                   cvars, uvars>>

\* m_Pushed.wait releases the mutex and blocks.
PopBlock(w) ==
    /\ pc[w] = "pop_block"
    /\ m_Mutex' = NoThread
    /\ m_Pushed' = m_Pushed \cup {w}
    /\ pc' = [pc EXCEPT ![w] = "pop_wait"]
    /\ UNCHANGED <<m_Threads, m_Waiting, qvars, cur, pushed, handed,
                   wfcResult, quiesced, shellCalls, cvars, uvars>>

\* A woken worker takes the mutex again and re-evaluates the predicate.
PopWake(w) ==
    /\ pc[w] = "pop_wait"
    /\ w \notin m_Pushed
    /\ m_Mutex = NoThread
    /\ PopCheck(w, m_WorkersWaiting)
    /\ UNCHANGED <<m_Threads, m_Pushed, m_Waiting, m_TotalWorkerThreads,
                   m_Suspended, m_Cancelled, pushed, wfcResult, quiesced,
                   shellCalls, cvars, uvars>>

\* WaitIfSuspended, line 96: the unlocked read of m_Suspended.
WaitIfSuspendedCall(w) ==
    /\ pc[w] = "task"
    /\ pc' = [pc EXCEPT ![w] = IF ~m_Suspended THEN "task" ELSE "wis_lock"]
    /\ UNCHANGED <<m_Threads, m_Mutex, m_Pushed, m_Waiting, qvars, cur,
                   pushed, handed, wfcResult, quiesced, shellCalls, cvars, uvars>>

\* One evaluation of the predicate of m_Waiting.wait in WaitIfSuspended and,
\* when it is true, lines 106-112.
WisCheck(w, ww) ==
    IF WisPred
    THEN /\ m_WorkersWaiting' = Dec(ww)
         /\ m_Mutex' = NoThread
         /\ pc' = [pc EXCEPT ![w] = IF m_Cancelled THEN "catch" ELSE "task"]
    ELSE /\ m_WorkersWaiting' = ww
         /\ m_Mutex' = w
         /\ pc' = [pc EXCEPT ![w] = "wis_block"]

\* WaitIfSuspended, lines 99-105.
WisEnter(w) ==
    /\ pc[w] = "wis_lock"
    /\ m_Mutex = NoThread
    /\ m_Waiting' = {}
    /\ WisCheck(w, Inc(m_WorkersWaiting))
    /\ UNCHANGED <<m_Threads, m_Pushed, m_Queue, m_TotalWorkerThreads,
                   m_Started, m_Suspended, m_Cancelled, cur, pushed, handed,
                   wfcResult, quiesced, shellCalls, cvars, uvars>>

WisBlock(w) ==
    /\ pc[w] = "wis_block"
    /\ m_Mutex' = NoThread
    /\ m_Waiting' = m_Waiting \cup {w}
    /\ pc' = [pc EXCEPT ![w] = "wis_wait"]
    /\ UNCHANGED <<m_Threads, m_Pushed, qvars, cur, pushed, handed,
                   wfcResult, quiesced, shellCalls, cvars, uvars>>

WisWake(w) ==
    /\ pc[w] = "wis_wait"
    /\ w \notin m_Waiting
    /\ m_Mutex = NoThread
    /\ WisCheck(w, m_WorkersWaiting)
    /\ UNCHANGED <<m_Threads, m_Pushed, m_Waiting, m_Queue,
                   m_TotalWorkerThreads, m_Started, m_Suspended, m_Cancelled,
                   cur, pushed, handed, wfcResult, quiesced, shellCalls,
                   cvars, uvars>>

\* Variant of Push: a task is taken only while the queue is not suspended.
PushUnlessSuspended(caller) ==
    /\ ~m_Suspended
    /\ pushed < MaxTasks
    /\ m_Mutex = NoThread
    /\ pushed' = pushed + 1
    /\ m_Queue' = PushFront(m_Queue, pushed + 1)
    /\ m_Pushed' \in NotifyOne(m_Pushed)
    /\ UNCHANGED <<m_Threads, m_Mutex, m_Waiting, m_TotalWorkerThreads,
                   m_WorkersWaiting, m_Started, m_Suspended, m_Cancelled,
                   pc, cur, handed, wfcResult, quiesced, shellCalls, cvars, uvars>>

\* Push, lines 60-66, with the next unused task id.
Push(caller) ==
    /\ pushed < MaxTasks
    /\ m_Mutex = NoThread
    /\ pushed' = pushed + 1
    /\ m_Queue' = PushFront(m_Queue, pushed + 1)
    /\ m_Pushed' \in NotifyOne(m_Pushed)
    /\ UNCHANGED <<m_Threads, m_Mutex, m_Waiting, m_TotalWorkerThreads,
                   m_WorkersWaiting, m_Started, m_Suspended, m_Cancelled,
                   pc, cur, handed, wfcResult, quiesced, shellCalls, cvars, uvars>>

\* The scan callback enqueues a follow-up task from inside a task.
TaskPush(w) ==
    /\ pc[w] = "task"
    /\ Push(w)

\* The scan callback is done with its task and loops back to Pop.
TaskDone(w) ==
    /\ pc[w] = "task"
    /\ pc' = [pc EXCEPT ![w] = "pop"]
    /\ cur' = [cur EXCEPT ![w] = NoTask]
    /\ UNCHANGED <<m_Threads, m_Mutex, m_Pushed, m_Waiting, qvars, pushed,
                   handed, wfcResult, quiesced, shellCalls, cvars, uvars>>

\* Variant of ThreadWrapperCatch: the handler does not count the worker.
ThreadWrapperCatchSilent(w) ==
    /\ pc[w] = "catch"
    /\ m_Mutex = NoThread
    /\ m_Waiting' = {}
    /\ pc' = [pc EXCEPT ![w] = "done"]
    /\ cur' = [cur EXCEPT ![w] = NoTask]
    /\ UNCHANGED <<m_Threads, m_Mutex, m_Pushed, m_Queue, m_WorkersWaiting,
                   m_TotalWorkerThreads, m_Started, m_Suspended, m_Cancelled,
                   pushed, handed, wfcResult, quiesced, shellCalls, cvars, uvars>>

\* ThreadWrapper, lines 41-47: the handler of the exception thrown by Pop or
\* WaitIfSuspended; the thread function returns after it.
ThreadWrapperCatch(w) ==
    /\ pc[w] = "catch"
    /\ m_Mutex = NoThread
    /\ m_WorkersWaiting' = Inc(m_WorkersWaiting)
    /\ m_Waiting' = {}
    /\ pc' = [pc EXCEPT ![w] = "done"]
    /\ cur' = [cur EXCEPT ![w] = NoTask]
    /\ UNCHANGED <<m_Threads, m_Mutex, m_Pushed, m_Queue,
                   m_TotalWorkerThreads, m_Started, m_Suspended, m_Cancelled,
                   pushed, handed, wfcResult, quiesced, shellCalls, cvars, uvars>>

\* A condition-variable wait may return without a notification.
SpuriousWakeup(t) ==
    /\ t \in m_Pushed \cup m_Waiting
    /\ m_Pushed' = m_Pushed \ {t}
    /\ m_Waiting' = m_Waiting \ {t}
    /\ UNCHANGED <<m_Threads, m_Mutex, qvars, pc, cur, pushed, handed,
                   wfcResult, quiesced, shellCalls, cvars, uvars>>

\* ------------------------------------------------------ scan coordinator
\* ResetQueue, lines 168-179 (the mutex is taken and released inside).
ResetQueue(totalWorkerThreads, clearQueue) ==
    /\ m_Mutex = NoThread
    /\ m_WorkersWaiting' = 0
    /\ m_Suspended' = FALSE
    /\ m_Started' = FALSE
    /\ m_Cancelled' = FALSE
    /\ m_TotalWorkerThreads' = totalWorkerThreads
    /\ m_Queue' = IF clearQueue THEN <<>> ELSE m_Queue
    /\ UNCHANGED m_Mutex

\* The coordinator enqueues a root before it starts the workers.
CoordPush ==
    /\ pc[Coord] = "c_idle"
    /\ Push(Coord)

\* Variant of StartThreads: ResetQueue is called with its default, which
\* clears the queue.
StartThreadsClears(workerThreads) ==
    /\ pc[Coord] = "c_idle"
    /\ pc[Shell] \notin {"cancel_notify", "cancel_join", "cancel_reset"}
    /\ \A w \in Workers : pc[w] \in {"none", "done"}
    /\ m_Threads = {}
    /\ ResetQueue(workerThreads, TRUE)
    /\ m_Threads' = 1..workerThreads
    /\ pc' = [t \in Threads |->
                IF t \in 1..workerThreads THEN "pop"
                ELSE IF t \in Workers THEN "none"
                ELSE IF t = Coord THEN "c_run" ELSE pc[t]]
    /\ wfcResult' = "none"
    /\ UNCHANGED <<m_Pushed, m_Waiting, cur, pushed, handed, quiesced,
                   shellCalls, cvars, uvars>>

\* StartThreads, lines 50-58.  It is called only while m_Threads is empty and
\* no CancelExecution is running: clearing a vector of joinable threads, or
\* filling it while CancelExecution iterates over it, is not a run of the
\* program.  A new thread starts at the first line of the callback, the call
\* of Pop.
StartThreads(workerThreads) ==
    /\ pc[Coord] = "c_idle"
    /\ pc[Shell] \notin {"cancel_notify", "cancel_join", "cancel_reset"}
    /\ \A w \in Workers : pc[w] \in {"none", "done"}
    /\ m_Threads = {}
    /\ ResetQueue(workerThreads, FALSE)
    /\ m_Threads' = 1..workerThreads
    /\ pc' = [t \in Threads |->
                IF t \in 1..workerThreads THEN "pop"
                ELSE IF t \in Workers THEN "none"
                ELSE IF t = Coord THEN "c_run" ELSE pc[t]]
    /\ wfcResult' = "none"
    /\ UNCHANGED <<m_Pushed, m_Waiting, cur, pushed, handed, quiesced,
                   shellCalls, cvars, uvars>>

\* One evaluation of the predicate of m_Waiting.wait in
\* WaitForCompletionOrCancellation and, when it is true, line 124.
WfcCheck ==
    IF WfcPred
    THEN /\ wfcResult' = IF ~m_Cancelled THEN "true" ELSE "false"
         /\ pc' = [pc EXCEPT ![Coord] = "c_ret"]
         /\ UNCHANGED m_Mutex
    ELSE /\ m_Mutex' = Coord
         /\ pc' = [pc EXCEPT ![Coord] = "wfc_block"]
         /\ UNCHANGED wfcResult

\* WaitForCompletionOrCancellation, lines 118-122.
WfcEnter ==
    /\ pc[Coord] = "c_run"
    /\ m_Mutex = NoThread
    /\ WfcCheck
    /\ UNCHANGED <<m_Threads, m_Pushed, m_Waiting, qvars, cur, pushed,
                   handed, quiesced, shellCalls, cvars, uvars>>

WfcBlock ==
    /\ pc[Coord] = "wfc_block"
    /\ m_Mutex' = NoThread
    /\ m_Waiting' = m_Waiting \cup {Coord}
    /\ pc' = [pc EXCEPT ![Coord] = "wfc_wait"]
    /\ UNCHANGED <<m_Threads, m_Pushed, qvars, cur, pushed, handed,
                   wfcResult, quiesced, shellCalls, cvars, uvars>>

WfcWake ==
    /\ pc[Coord] = "wfc_wait"
    /\ Coord \notin m_Waiting
    /\ m_Mutex = NoThread
    /\ WfcCheck
    /\ UNCHANGED <<m_Threads, m_Pushed, m_Waiting, qvars, cur, pushed,
                   handed, quiesced, shellCalls, cvars, uvars>>

\* The coordinator thread ends once the scan is over and the workers are gone.
CoordFinish ==
    /\ pc[Coord] = "c_ret"
    /\ m_Threads = {}
    /\ pc[Shell] \notin {"cancel_notify", "cancel_join", "cancel_reset"}
    /\ pc' = [pc EXCEPT ![Coord] = "c_idle"]
    /\ UNCHANGED <<m_Threads, m_Mutex, m_Pushed, m_Waiting, qvars, cur,
                   pushed, handed, wfcResult, quiesced, shellCalls, cvars, uvars>>

\* ------------------------------------------------------------ shell thread
\* One evaluation of the predicate of m_Waiting.wait in SuspendExecution.
\* The predicate reads only what the mutex protects, so evaluating it and
\* blocking are one step.
SuspendCheck(waiting) ==
    IF AllThreadsIdling
    THEN /\ pc' = [pc EXCEPT ![Shell] = "s_idle"]
         /\ quiesced' = TRUE
         /\ m_Waiting' = waiting
    ELSE /\ pc' = [pc EXCEPT ![Shell] = "suspend_wait"]
         /\ quiesced' = quiesced
         /\ m_Waiting' = waiting \cup {Shell}

\* Variant of SuspendExecution: the flag is toggled, not set.
SuspendExecutionToggles ==
    /\ pc[Shell] = "s_idle"
    /\ shellCalls < MaxShellCalls
    /\ m_Mutex = NoThread
    /\ m_Suspended' = ~m_Suspended
    /\ shellCalls' = shellCalls + 1
    /\ SuspendCheck({})
    /\ UNCHANGED <<m_Threads, m_Mutex, m_Pushed, m_Queue,
                   m_TotalWorkerThreads, m_WorkersWaiting, m_Started,
                   m_Cancelled, cur, pushed, handed, wfcResult, cvars, uvars>>

\* SuspendExecution, lines 151-157.
SuspendExecution ==
    /\ pc[Shell] = "s_idle"
    /\ shellCalls < MaxShellCalls
    /\ m_Mutex = NoThread
    /\ m_Suspended' = TRUE
    /\ shellCalls' = shellCalls + 1
    /\ SuspendCheck({})
    /\ UNCHANGED <<m_Threads, m_Mutex, m_Pushed, m_Queue,
                   m_TotalWorkerThreads, m_WorkersWaiting, m_Started,
                   m_Cancelled, cur, pushed, handed, wfcResult, cvars, uvars>>

SuspendWake ==
    /\ pc[Shell] = "suspend_wait"
    /\ Shell \notin m_Waiting
    /\ m_Mutex = NoThread
    /\ SuspendCheck(m_Waiting)
    /\ UNCHANGED <<m_Threads, m_Mutex, m_Pushed, qvars, cur, pushed, handed,
                   wfcResult, shellCalls, cvars, uvars>>

\* Variant of ResumeExecution: the workers blocked in Pop are not notified.
ResumeExecutionKeepsPop ==
    /\ pc[Shell] = "s_idle"
    /\ m_Suspended \/ shellCalls < MaxShellCalls
    /\ m_Mutex = NoThread
    /\ m_Suspended' = FALSE
    /\ shellCalls' = IF m_Suspended THEN shellCalls ELSE shellCalls + 1
    /\ m_Waiting' = {}
    /\ quiesced' = FALSE
    /\ UNCHANGED <<m_Threads, m_Mutex, m_Pushed, m_Queue,
                   m_TotalWorkerThreads, m_WorkersWaiting, m_Started,
                   m_Cancelled, pc, cur, pushed, handed, wfcResult, cvars, uvars>>

\* ResumeExecution, lines 160-166.
ResumeExecution ==
    /\ pc[Shell] = "s_idle"
    /\ m_Suspended \/ shellCalls < MaxShellCalls
    /\ m_Mutex = NoThread
    /\ m_Suspended' = FALSE
    /\ shellCalls' = IF m_Suspended THEN shellCalls ELSE shellCalls + 1
    /\ m_Waiting' = {}
    /\ m_Pushed' = {}
    /\ quiesced' = FALSE
    /\ UNCHANGED <<m_Threads, m_Mutex, m_Queue, m_TotalWorkerThreads,
                   m_WorkersWaiting, m_Started, m_Cancelled, pc, cur, pushed,
                   handed, wfcResult, cvars, uvars>>

\* CancelExecution, line 130: the write of m_Cancelled, without the mutex.
CancelSet ==
    /\ pc[Shell] = "s_idle"
    /\ m_Cancelled' = TRUE
    /\ quiesced' = FALSE
    /\ pc' = [pc EXCEPT ![Shell] = "cancel_notify"]
    /\ UNCHANGED <<m_Threads, m_Mutex, m_Pushed, m_Waiting, m_Queue,
                   m_TotalWorkerThreads, m_WorkersWaiting, m_Started,
                   m_Suspended, cur, pushed, handed, wfcResult, shellCalls,
                   cvars, uvars>>

\* CancelExecution, lines 131-132: both notify_all calls, without the mutex.
CancelNotify ==
    /\ pc[Shell] = "cancel_notify"
    /\ m_Waiting' = {}
    /\ m_Pushed' = {}
    /\ pc' = [pc EXCEPT ![Shell] = "cancel_join"]
    /\ UNCHANGED <<m_Threads, m_Mutex, qvars, cur, pushed, handed, wfcResult,
                   quiesced, shellCalls, cvars, uvars>>

\* Variant of Joinable: join returns although the thread still runs.
JoinableAtOnce(w) == TRUE
\* thread.join() returns when the thread function has returned.
Joinable(w) == pc[w] = "done"

\* CancelExecution, lines 135-138: the loop of joins.
CancelJoin ==
    /\ pc[Shell] = "cancel_join"
    /\ \A w \in m_Threads : Joinable(w)
    /\ pc' = [pc EXCEPT ![Shell] = "cancel_reset"]
    /\ UNCHANGED <<m_Threads, m_Mutex, m_Pushed, m_Waiting, qvars, cur,
                   pushed, handed, wfcResult, quiesced, shellCalls, cvars, uvars>>

\* Variant of CancelReset: the queue is not cleared.
CancelResetKeepsQueue ==
    /\ pc[Shell] = "cancel_reset"
    /\ ResetQueue(m_TotalWorkerThreads, FALSE)
    /\ m_Threads' = {}
    /\ pc' = [pc EXCEPT ![Shell] = "s_idle"]
    /\ UNCHANGED <<m_Pushed, m_Waiting, cur, pushed, handed, wfcResult,
                   quiesced, shellCalls, cvars, uvars>>

\* CancelExecution, line 141, and its return.
CancelReset ==
    /\ pc[Shell] = "cancel_reset"
    /\ ResetQueue(m_TotalWorkerThreads, TRUE)
    /\ m_Threads' = {}
    /\ pc' = [pc EXCEPT ![Shell] = "s_idle"]
    /\ UNCHANGED <<m_Pushed, m_Waiting, cur, pushed, handed, wfcResult,
                   quiesced, shellCalls, cvars, uvars>>

\* ---------------------------------------------------------- specification
WorkerStep(w) ==
    \/ PopEnter(w)
    \/ PopBlock(w)
    \/ PopWake(w)
    \/ WaitIfSuspendedCall(w)
    \/ WisEnter(w)
    \/ WisBlock(w)
    \/ WisWake(w)
    \/ TaskPush(w)
    \/ TaskDone(w)
    \/ ThreadWrapperCatch(w)

Next ==
    \/ \E w \in Workers : WorkerStep(w)
    \/ \E t \in Threads : SpuriousWakeup(t)
    \/ CoordPush
    \/ \E n \in 1..MaxWorkers : StartThreads(n)
    \/ WfcEnter
    \/ WfcBlock
    \/ WfcWake
    \/ CoordFinish
    \/ SuspendExecution
    \/ SuspendWake
    \/ ResumeExecution
    \/ CancelSet
    \/ CancelNotify
    \/ CancelJoin
    \/ CancelReset

Spec == Init /\ [][Next]_vars

TypeOK ==
    /\ m_Threads \subseteq Workers
    /\ m_Mutex \in {NoThread} \cup Threads
    /\ m_WorkersWaiting \in Int
    /\ pushed \in 0..MaxTasks

\* ------------------------------------------------------- state predicates
\* a worker is between a Pop that returned a task and its next call of Pop
InTask(w) == pc[w] \in {"task", "wis_lock", "wis_block", "wis_wait"}
\* a worker is inside Pop or inside the locked part of WaitIfSuspended and
\* cannot leave it without taking the mutex and finding the predicate true
Blocked(w) == pc[w] \in {"pop_block", "pop_wait", "wis_block", "wis_wait"}
\* the thread does not exist or its thread function has returned
Exited(w) == pc[w] \in {"none", "done"}
\* the coordinator's wait returns in this step
WfcReturns == pc[Coord] # "c_ret" /\ pc'[Coord] = "c_ret"
\* a Pop hands out a task in this step
PopReturns(w) == pc[w] \in {"pop", "pop_wait"} /\ pc'[w] = "task"

\* C1: WaitForCompletionOrCancellation returns true only when the queue is
\* started, not suspended, empty, all workers are counted as waiting and
\* nothing is cancelled; it returns false only when m_Cancelled is set; it
\* returns in no other state.
C1_WaitResult ==
    [][WfcReturns =>
         \/ /\ wfcResult' = "true"
            /\ m_Started /\ ~m_Suspended /\ m_Queue = <<>>
            /\ m_WorkersWaiting = m_TotalWorkerThreads /\ ~m_Cancelled
         \/ /\ wfcResult' = "false"
            /\ m_Cancelled]_vars

C1_Witness ==
    /\ pc[Coord] = "c_ret"
    /\ wfcResult = "true"
    /\ handed[1] = 1

\* C2: after WaitForCompletionOrCancellation returned true, no worker is in
\* the middle of a task.
C2_TrueMeansQuiescent ==
    wfcResult = "true" => \A w \in Workers : ~InTask(w)

\* C3: from the return of SuspendExecution to the next ResumeExecution or
\* CancelExecution every worker is blocked in Pop or WaitIfSuspended or has
\* exited, and no Pop hands out a task.
C3_SuspendedMeansBlocked ==
    [][quiesced =>
         /\ \A w \in Workers : Blocked(w) \/ Exited(w)
         /\ handed' = handed]_vars

C3_Witness ==
    /\ quiesced
    /\ m_Queue # <<>>
    /\ \E w \in Workers : pc[w] = "wis_wait"
    /\ \E w \in Workers : pc[w] = "pop_wait"

\* the tasks held by a queue
Elems(q) == {q[i] : i \in 1..Len(q)}
\* a worker leaves the wait of Pop in this step, one way or the other
PopLeaves(w) == pc[w] \in {"pop", "pop_wait"} /\ pc'[w] \in {"task", "catch"}
\* CancelExecution returns in this step
CancelReturns == pc[Shell] = "cancel_reset" /\ pc'[Shell] = "s_idle"

\* C4: Pop hands out a task only from a non-empty queue that is neither
\* suspended nor cancelled; the task was pushed before, was in the queue and
\* is removed from it; no task is handed out twice; under m_Cancelled Pop
\* throws and leaves the queue as it is.
C4_PopContract ==
    [][\A w \in Workers :
         /\ PopReturns(w) =>
              /\ m_Queue # <<>> /\ ~m_Suspended /\ ~m_Cancelled
              /\ cur'[w] \in 1..pushed
              /\ cur'[w] \in Elems(m_Queue)
              /\ cur'[w] \notin Elems(m_Queue')
              /\ Len(m_Queue') = Len(m_Queue) - 1
              /\ handed'[cur'[w]] = 1
         /\ (PopLeaves(w) /\ m_Cancelled) =>
              /\ pc'[w] = "catch"
              /\ m_Queue' = m_Queue
              /\ handed' = handed]_vars

C4_Witness ==
    /\ m_Cancelled
    /\ m_Queue # <<>>
    /\ \E w \in Workers : pc[w] = "catch"
    /\ \E w \in Workers : pc[w] = "task" /\ cur[w] # NoTask

\* C5 as claimed: the queue is FIFO, so every task already handed out was
\* pushed before every task that is still queued.
C5_Fifo ==
    \A t \in Tasks : \A u \in Elems(m_Queue) : handed[t] > 0 => t < u

\* C5 as amended: the queue is LIFO, Pop hands out the task pushed last among
\* the queued ones.
C5_Lifo ==
    [][\A w \in Workers :
         PopReturns(w) => \A u \in Elems(m_Queue) : u <= cur'[w]]_vars

C5_Witness ==
    /\ Len(m_Queue) >= 1
    /\ \E w \in Workers :
         /\ pc[w] = "task"
         /\ \A u \in Elems(m_Queue) : u < cur[w]

\* C6: when CancelExecution returns every worker thread has terminated, and
\* as long as m_Threads is empty no worker exists and no task is handed out.
C6_CancelJoins ==
    [][/\ CancelReturns => \A w \in Workers : pc'[w] \in {"none", "done"}
       /\ m_Threads = {} =>
            /\ \A w \in Workers : Exited(w)
            /\ handed' = handed]_vars

C6_Witness ==
    /\ m_Threads = {}
    /\ pc[Shell] = "s_idle"
    /\ \A w \in Workers : pc[w] = "done"
    /\ handed[1] = 1

\* C10: m_Cancelled, once true, is cleared by nothing but ResetQueue, and
\* while it is true no Pop hands out a task.
C10_CancelSticky ==
    [][m_Cancelled =>
         /\ m_Cancelled' \/ CancelReturns
         /\ handed' = handed]_vars

C10_Witness ==
    /\ m_Cancelled
    /\ pc[Shell] = "cancel_join"
    /\ m_Queue # <<>>
    /\ \E w \in Workers : pc[w] = "done"
    /\ \E w \in Workers : pc[w] = "task"

\* ------------------------------------------------------------- liveness
\* What a thread that is inside an operation does next.  Calling an
\* operation (Push, WaitIfSuspended, SuspendExecution, ResumeExecution,
\* CancelExecution, StartThreads) is the caller's choice and is not forced;
\* a spurious wake-up is never forced either.
WorkerRuns(w) ==
    \/ PopEnter(w)
    \/ PopBlock(w)
    \/ PopWake(w)
    \/ WisEnter(w)
    \/ WisBlock(w)
    \/ WisWake(w)
    \/ TaskDone(w)
    \/ ThreadWrapperCatch(w)

CoordRuns == WfcEnter \/ WfcBlock \/ WfcWake

ShellRuns == SuspendWake \/ CancelNotify \/ CancelJoin \/ CancelReset

\* Every thread that can run is scheduled.
Fairness ==
    /\ \A w \in Workers : WF_vars(WorkerRuns(w))
    /\ WF_vars(CoordRuns)
    /\ WF_vars(ShellRuns)

FairSpec == Spec /\ Fairness

\* C7: once CancelExecution is invoked it eventually returns, all workers
\* having been woken and having exited.
C7_CancelReturns ==
    (pc[Shell] = "cancel_notify") ~> (pc[Shell] = "s_idle")

\* C8: a WaitForCompletionOrCancellation that is under way when
\* CancelExecution is invoked eventually returns false.
C8_WaitReturnsFalse ==
    (pc[Shell] = "cancel_notify" /\ pc[Coord] \in {"wfc_block", "wfc_wait"})
        ~> (pc[Coord] = "c_ret" /\ wfcResult = "false")

\* A worker's steps when nothing is cancelled: Pop and WaitIfSuspended never
\* throw, so the handler of ThreadWrapper is not reached.
WorkerStepNoCancel(w) ==
    \/ PopEnter(w)
    \/ PopBlock(w)
    \/ PopWake(w)
    \/ WaitIfSuspendedCall(w)
    \/ WisEnter(w)
    \/ WisBlock(w)
    \/ WisWake(w)
    \/ TaskPush(w)
    \/ TaskDone(w)

\* Runs without cancellation: CancelExecution is never called, so the
\* workers of the one lifecycle are never joined.  Spurious wake-ups are left
\* out: they write nothing and only make a blocked thread evaluate its
\* predicate once more, so a run without them is the one in which a thread
\* depends on the notifications alone.  The mutex is then taken only finitely
\* often (pushes and shell calls are bounded), and weak fairness is enough
\* for a thread that waits for it.
NextNoCancel ==
    \/ \E w \in Workers : WorkerStepNoCancel(w)
    \/ CoordPush
    \/ \E n \in 1..MaxWorkers : StartThreads(n)
    \/ WfcEnter
    \/ WfcBlock
    \/ WfcWake
    \/ SuspendExecution
    \/ SuspendWake
    \/ ResumeExecution

\* the shell resumes a queue it has suspended
ResumeAfterSuspend == m_Suspended /\ ResumeExecution

FairSpecNoCancel ==
    /\ Init
    /\ [][NextNoCancel]_vars
    /\ Fairness
    /\ WF_vars(ResumeAfterSuspend)

\* C9: without cancellation, with every suspension resumed and every task
\* body ending, every pushed task of a started scan is handed out, none is
\* handed out twice, and the coordinator's wait returns true.
C9_AllTasksProcessed ==
    /\ [](\A t \in Tasks : handed[t] <= 1)
    /\ (m_Threads # {} /\ pushed > 0) ~>
          [](wfcResult = "true" /\ \A t \in 1..pushed : handed[t] = 1)

C9_Witness ==
    /\ wfcResult = "true"
    /\ shellCalls > 0
    /\ ~m_Suspended
    /\ pushed = MaxTasks
    /\ \A t \in Tasks : handed[t] = 1

\* ------------------------------------------------- counters and flags
\* the workers that the code has counted in m_WorkersWaiting: those inside
\* the wait of Pop or of WaitIfSuspended, and those that left through the
\* handler of ThreadWrapper
Counted == {w \in m_Threads :
              pc[w] \in {"pop_block", "pop_wait", "wis_block", "wis_wait",
                         "done"}}

\* C11: in every reachable state 0 <= m_WorkersWaiting <= m_TotalWorkerThreads
\* (no wrap of the unsigned counter), and the counter is the number of workers
\* counted, each of them once.
C11_CounterRange ==
    /\ 0 <= m_WorkersWaiting
    /\ m_WorkersWaiting <= m_TotalWorkerThreads
    /\ m_WorkersWaiting = Cardinality(Counted)

C11_Witness ==
    /\ m_WorkersWaiting = MaxWorkers
    /\ m_TotalWorkerThreads = MaxWorkers
    /\ \E w \in m_Threads : pc[w] = "done"
    /\ \E w \in m_Threads : pc[w] = "wis_wait"

\* ResetQueue runs in this step: inside StartThreads or at the end of
\* CancelExecution
ResetRuns ==
    \/ pc[Coord] = "c_idle" /\ pc'[Coord] = "c_run"
    \/ CancelReturns

\* C12: m_Started changes only in two ways: a Pop that hands out a task makes
\* it true, ResetQueue makes it false.  Every Pop that hands out a task
\* leaves it true, a Pop that throws leaves it as it was, and so do Push,
\* SuspendExecution and ResumeExecution; while it is false no worker holds a
\* task.
C12_StartedFlag ==
    /\ [][/\ (m_Started' # m_Started) =>
               \/ m_Started' /\ \E w \in Workers : PopReturns(w)
               \/ ~m_Started' /\ ResetRuns
          /\ (\E w \in Workers : PopReturns(w)) => m_Started'
          /\ ResetRuns => ~m_Started']_vars
    /\ []((\E w \in Workers : InTask(w)) => m_Started)

C12_Witness ==
    /\ m_Started
    /\ m_Suspended
    /\ m_Queue # <<>>
    /\ \E w \in Workers : pc[w] = "task"
    /\ \E w \in Workers : pc[w] = "pop_wait"

\* ------------------------------------------------------ WaitIfSuspended
\* a call of WaitIfSuspended at line 96 that returns at once
WisFastReturn(w) == WaitIfSuspendedCall(w) /\ pc'[w] = "task"
\* a call of WaitIfSuspended that blocked returns normally in this step
WisSlowReturn(w) == pc[w] \in {"wis_lock", "wis_wait"} /\ pc'[w] = "task"
\* a call of WaitIfSuspended throws in this step
WisThrows(w) == pc[w] \in {"wis_lock", "wis_wait"} /\ pc'[w] = "catch"
\* the worker is inside the locked part of WaitIfSuspended
InWis(w) == pc[w] \in {"wis_lock", "wis_block", "wis_wait"}

\* C13 as claimed: WaitIfSuspended returns normally only when the queue is
\* neither suspended nor cancelled, so a worker that calls it while
\* m_Cancelled is set (set before the call) cannot get a normal return.
C13_ReturnsOnlyUncancelled ==
    \A w \in Workers :
        (pc[w] = "task" /\ (m_Suspended \/ m_Cancelled))
            => ~ENABLED WisFastReturn(w)

\* C13 as amended: a call returns at once exactly when it reads m_Suspended
\* as false at line 96, cancelled or not; a call that read it as true leaves
\* its wait only when the queue is not suspended or is cancelled, throws
\* exactly when m_Cancelled is set at that point and returns normally
\* otherwise; no call returns normally while m_Suspended is set.
C13_WaitIfSuspended ==
    /\ [](\A w \in Workers :
            pc[w] = "task" => (ENABLED WisFastReturn(w) <=> ~m_Suspended))
    /\ [][\A w \in Workers :
            /\ WisSlowReturn(w) => ~m_Suspended /\ ~m_Cancelled
            /\ (pc[w] = "task" /\ InWis(w)') => m_Suspended
            /\ WisThrows(w) => m_Cancelled
            /\ (InWis(w) /\ ~InWis(w)') =>
                 /\ ~m_Suspended \/ m_Cancelled
                 /\ m_Cancelled => WisThrows(w)]_vars

\* cancelled and not suspended: one worker can call WaitIfSuspended and get
\* a normal return, another has been thrown out of its task
C13_Witness ==
    /\ m_Cancelled
    /\ ~m_Suspended
    /\ \E w \in Workers : pc[w] = "task" /\ ENABLED WisFastReturn(w)
    /\ \E w \in Workers : pc[w] = "catch" /\ cur[w] # NoTask

\* ------------------------------------------------ suspend and resume
\* SuspendExecution is called in this step
SuspendCalled ==
    /\ pc[Shell] = "s_idle"
    /\ shellCalls' = shellCalls + 1
    /\ m_Suspended \/ m_Suspended'
\* ResumeExecution is called in this step on a queue that is not suspended
ResumeCalledAgain ==
    pc[Shell] = "s_idle" /\ shellCalls' = shellCalls + 1 /\ ~m_Suspended'

\* C14: SuspendExecution on a queue that is already suspended returns at once
\* and leaves flags, counters and queued tasks as they are; ResumeExecution on
\* a queue that is not suspended leaves them as they are, too.
C14_Idempotent ==
    [][/\ (m_Suspended /\ SuspendCalled) =>
            /\ pc'[Shell] = "s_idle"
            /\ qvars' = qvars
       /\ (~m_Suspended /\ ResumeCalledAgain) =>
            /\ pc'[Shell] = "s_idle"
            /\ qvars' = qvars]_vars

\* both SuspendExecution calls have been made, the second on the suspended
\* queue: it has woken the worker parked in WaitIfSuspended
C14_Witness ==
    /\ shellCalls = 2
    /\ quiesced
    /\ m_Suspended
    /\ m_Queue # <<>>
    /\ \E w \in Workers : pc[w] = "wis_wait" /\ w \notin m_Waiting

\* ------------------------------------------------------------------ Push
\* Push is called in this step
PushCalled == pushed' # pushed
\* the only things a caller of Push can have to wait for: the mutex, and in
\* the model an unused task id
PushReady == m_Mutex = NoThread /\ pushed < MaxTasks

\* C15: Push is enabled for a worker inside a task and for the coordinator
\* before the start whatever the queue holds and whatever m_Started,
\* m_Suspended and m_Cancelled are; it puts exactly one task into the queue,
\* keeps the tasks that were there and leaves m_Started, m_Suspended,
\* m_Cancelled, m_WorkersWaiting and m_TotalWorkerThreads unchanged.
C15_PushFrame ==
    /\ [][PushCalled =>
            /\ pushed' = pushed + 1
            /\ Len(m_Queue') = Len(m_Queue) + 1
            /\ Elems(m_Queue') = Elems(m_Queue) \cup {pushed'}
            /\ UNCHANGED <<m_Started, m_Suspended, m_Cancelled,
                           m_WorkersWaiting, m_TotalWorkerThreads>>]_vars
    /\ [](PushReady =>
            /\ \A w \in Workers : pc[w] = "task" => ENABLED TaskPush(w)
            /\ pc[Coord] = "c_idle" => ENABLED CoordPush)

\* a worker has pushed task 2 from inside task 1 and the queue is cancelled
C15_Witness ==
    /\ m_Cancelled
    /\ m_Threads = {1}
    /\ pc[1] = "task" /\ cur[1] = 1
    /\ m_Queue = <<2>>

\* ======================================================================
\* CSV codec, src/windirstat/CsvLoader.cpp.  A string is a sequence of
\* characters; a character is a one-letter string, and a word that the
\* codec never takes apart (a localized column title, the name of a pseudo
\* item) stands for itself as one element.
\* ======================================================================
MaxCount == 1

NUL == "NUL"
Quote == "\""
Comma == ","
Backslash == "\\"

DecDigits == <<"0", "1", "2", "3", "4", "5", "6", "7", "8", "9">>
HexDigits == DecDigits \o <<"A", "B", "C", "D", "E", "F">>

Max(a, b) == IF a > b THEN a ELSE b
Zeros(n) == [i \in 1..n |-> "0"]

\* std::format("{}", n) for an unsigned integer
RECURSIVE FormatDec(_)
FormatDec(n) ==
    IF n < 10 THEN <<DecDigits[n + 1]>>
    ELSE FormatDec(n \div 10) \o <<DecDigits[(n % 10) + 1]>>

\* std::format("{:0wX}", n): upper-case hex, zero-padded to at least w digits
RECURSIVE FormatHex(_, _)
FormatHex(n, w) ==
    IF n < 16 THEN Zeros(Max(w - 1, 0)) \o <<HexDigits[n + 1]>>
    ELSE FormatHex(n \div 16, Max(w - 1, 0)) \o <<HexDigits[(n % 16) + 1]>>

\* value of a character as a digit of the base, -1 when it is none
DigitValue(c, base) ==
    IF \E d \in 1..base : HexDigits[d] = c
    THEN (CHOOSE d \in 1..base : HexDigits[d] = c) - 1
    ELSE 0 - 1

\* the digits at the start of s, accumulated: the loop of wcstoul/_wcstoui64,
\* which stops at the first character that is no digit (the NUL included)
RECURSIVE ParseDigits(_, _, _)
ParseDigits(s, base, acc) ==
    IF s = <<>> \/ DigitValue(Head(s), base) < 0 THEN acc
    ELSE ParseDigits(Tail(s), base, acc * base + DigitValue(Head(s), base))

\* wcstoul(s, nullptr, base) and _wcstoui64(s, nullptr, base): an optional
\* 0x prefix when base is 16, then digits; 0 when there is none.  (Values of
\* the model stay far below ULONG_MAX, where the functions saturate.)
ParseUnsigned(s, base) ==
    IF base = 16 /\ Len(s) >= 2 /\ s[1] = "0" /\ s[2] \in {"x", "X"}
    THEN ParseDigits(SubSeq(s, 3, Len(s)), base, 0)
    ELSE ParseDigits(s, base, 0)

\* a & b on unsigned integers
RECURSIVE BitAnd(_, _)
BitAnd(a, b) ==
    IF a = 0 \/ b = 0 THEN 0
    ELSE (a % 2) * (b % 2) + 2 * BitAnd(a \div 2, b \div 2)

\* QuoteAndConvert, lines 99-107 (the strings of the model are ASCII, whose
\* UTF-8 form is themselves)
QuoteAndConvert(inc) == <<Quote>> \o inc \o <<Quote>>

\* std::format("{:%FT%TZ}", ToTimePoint(ft)), lines 75-79 and 265: the ticks
\* of the file time written as text that ends in Z.  The calendar fields of
\* the text are kept as the one number they encode.
FormatTime(ft) == <<"T">> \o FormatDec(ft) \o <<"Z">>
\* FromTimeString, lines 81-97: the inverse parse; text that does not match
\* the format leaves the time point at 0
FromTimeString(s) ==
    IF Len(s) >= 3 /\ s[1] = "T" /\ DigitValue(s[2], 10) >= 0
    THEN ParseDigits(Tail(s), 10, 0)
    ELSE 0

\* index of the first c in s at or after pos, 0 when there is none
\* (std::wstring::find)
Find(s, c, pos) ==
    IF \E i \in pos..Len(s) : s[i] = c
    THEN CHOOSE i \in pos..Len(s) : s[i] = c /\ \A j \in pos..(i - 1) : s[j] # c
    ELSE 0

\* index of the last c in s, 0 when there is none (wcsrchr)
FindLast(s, c) ==
    IF \E i \in 1..Len(s) : s[i] = c
    THEN CHOOSE i \in 1..Len(s) : s[i] = c /\ \A j \in (i + 1)..Len(s) : s[j] # c
    ELSE 0

\* "Parse all fields", lines 131-149, from position pos (1-based) with the
\* fields found so far; <<FALSE, ...>> when line 143 returns nullptr.
RECURSIVE ParseFields(_, _, _)
ParseFields(line, pos, fields) ==
    IF pos > Len(line) THEN <<TRUE, fields>>
    ELSE LET comma == Find(line, Comma, pos)
             quoted == line[pos] = Quote
             start == IF quoted THEN pos + 1 ELSE pos
             end == IF quoted THEN Find(line, Quote, start)
                    ELSE IF comma = 0 THEN Len(line) + 1 ELSE comma
         IN IF quoted /\ end = 0 THEN <<FALSE, fields>>
            ELSE ParseFields(line,
                             end + (IF quoted THEN 1 ELSE 0) + 1,
                             Append(fields, SubSeq(line, start, end - 1)))

\* lines 125-129: the line as LoadResults holds it.  MultiByteToWideChar is
\* called with length -1, so the count it returns includes the terminator
\* and the wide line ends in a NUL character.
WideLine(linebuf) == linebuf \o <<NUL>>

\* ------------------------------------------------------------ item tree
\* ITEMTYPE: the kind bits and the root flag of an item
IT_MYCOMPUTER == 1
IT_DRIVE == 2
IT_DIRECTORY == 4
IT_FILE == 8
IT_FREESPACE == 16
IT_UNKNOWN == 32
ITF_ROOTITEM == 32768

\* CItem::IsType
IsType(type, mask) == BitAnd(type, mask) # 0

\* A CItem with the fields the codec reads and writes; parent is an index
\* into the sequence that holds the item, 0 for none.
CItem(type, name, parent, lastChange, sizePhysical, sizeLogical, attributes, files, folders) ==
    [type |-> type, name |-> name, parent |-> parent,
     lastChange |-> lastChange, sizePhysical |-> sizePhysical,
     sizeLogical |-> sizeLogical, attributes |-> attributes,
     files |-> files, folders |-> folders]

\* CItem::GetChildren: the children of item i of t, in the order of t
GetChildren(t, i) ==
    LET RECURSIVE From(_)
        From(k) == IF k > Len(t) THEN <<>>
                   ELSE IF t[k].parent = i THEN <<k>> \o From(k + 1)
                   ELSE From(k + 1)
    IN From(1)

\* s without one trailing backslash
StripBackslash(s) ==
    IF s # <<>> /\ s[Len(s)] = Backslash THEN SubSeq(s, 1, Len(s) - 1) ELSE s

\* CItem::GetPath: the name of a root item, of a drive and of a pseudo item
\* is its full text; below them a path is the parent's path, a backslash and
\* the name.
RECURSIVE GetPath(_, _)
GetPath(t, i) ==
    IF \/ t[i].parent = 0
       \/ IsType(t[i].type, IT_MYCOMPUTER + IT_DRIVE + IT_UNKNOWN + IT_FREESPACE)
    THEN t[i].name
    ELSE StripBackslash(GetPath(t, t[i].parent)) \o <<Backslash>> \o t[i].name

\* CItem::TmiIsLeaf: files and the two pseudo files have no children
TmiIsLeaf(type) == IsType(type, IT_FILE + IT_FREESPACE + IT_UNKNOWN)
\* CItem::GetItemsCount
GetItemsCount(item) == item.files + item.folders

DriveC == <<"C", ":", Backslash>>
FILE_ATTRIBUTE_DIRECTORY == 16
FILE_ATTRIBUTE_ARCHIVE == 32

\* the sizes and the time of the one file whose fields vary
SizeLogicalOf(a) == 100 * a + 17
SizePhysicalOf(b) == 4096 * b
LastChangeOf(a, b) == 10 * a + b

\* The computer with one drive: the drive holds a directory with a file in
\* it and its free-space item.
TreeComputer(a, b) ==
    LET sl == SizeLogicalOf(a)
        sp == SizePhysicalOf(b)
        lc == LastChangeOf(a, b)
    IN <<CItem(IT_MYCOMPUTER + ITF_ROOTITEM, <<"My Computer">>, 0,
               lc, sp + 512, sl, 0, 1, 1),
         CItem(IT_DRIVE, DriveC, 1, lc, sp + 512, sl, 0, 1, 1),
         CItem(IT_DIRECTORY, <<"a">>, 2, lc, sp, sl,
               FILE_ATTRIBUTE_DIRECTORY, 1, 0),
         CItem(IT_FILE, <<"f">>, 3, lc, sp, sl, FILE_ATTRIBUTE_ARCHIVE, 0, 0),
         CItem(IT_FREESPACE, <<"<Free Space>">>, 2, 0, 512, 0, 0, 0, 0)>>

\* One drive as the root: a file and a directory directly in it, and its
\* unknown item.
TreeDrive(a, b) ==
    LET sl == SizeLogicalOf(a)
        sp == SizePhysicalOf(b)
        lc == LastChangeOf(a, b)
    IN <<CItem(IT_DRIVE + ITF_ROOTITEM, DriveC, 0,
               lc, sp + 1024, sl + 1, 0, 2, 1),
         CItem(IT_DIRECTORY, <<"a">>, 1, lc, sp, sl,
               FILE_ATTRIBUTE_DIRECTORY, 1, 0),
         CItem(IT_FILE, <<"f">>, 2, lc, sp, sl, FILE_ATTRIBUTE_ARCHIVE, 0, 0),
         CItem(IT_FILE, <<"g">>, 1, 0, 512, 1, FILE_ATTRIBUTE_ARCHIVE, 0, 0),
         CItem(IT_UNKNOWN, <<"<Unknown>">>, 1, 0, 512, 0, 0, 0, 0)>>

\* One directory as the root: a file whose name has a comma, a directory
\* with a file, and an empty directory.
TreeFolder(a, b) ==
    LET sl == SizeLogicalOf(a)
        sp == SizePhysicalOf(b)
        lc == LastChangeOf(a, b)
    IN <<CItem(IT_DIRECTORY + ITF_ROOTITEM, DriveC \o <<"a">>, 0,
               lc, sp + 512, sl + 1, FILE_ATTRIBUTE_DIRECTORY, 2, 2),
         CItem(IT_FILE, <<"g", Comma, "h">>, 1, 0, 512, 1,
               FILE_ATTRIBUTE_ARCHIVE, 0, 0),
         CItem(IT_DIRECTORY, <<"b">>, 1, lc, sp, sl,
               FILE_ATTRIBUTE_DIRECTORY, 1, 0),
         CItem(IT_FILE, <<"f">>, 3, lc, sp, sl, FILE_ATTRIBUTE_ARCHIVE, 0, 0),
         CItem(IT_DIRECTORY, <<"e">>, 1, 0, 0, 0,
               FILE_ATTRIBUTE_DIRECTORY, 0, 0)>>

Counts == 0..MaxCount
Trees ==
    {TreeComputer(a, b) : a \in Counts, b \in Counts}
    \cup {TreeDrive(a, b) : a \in Counts, b \in Counts}
    \cup {TreeFolder(a, b) : a \in Counts, b \in Counts}

\* ---------------------------------------------------------------- columns
FIELD_NAME == 0
FIELD_FILES == 1
FIELDS_FOLDERS == 2
FIELD_SIZE_LOGICAL == 3
FIELD_SIZE_PHYSICAL == 4
FIELD_ATTRIBUTES == 5
FIELD_LASTCHANGE == 6
FIELD_ATTRIBUTES_WDS == 7
FIELD_OWNER == 8
FIELD_COUNT == 9

\* Localization::Lookup of the column titles; the title of ATTRIBUTES_WDS is
\* the application title, a blank and the title of ATTRIBUTES
AppTitle == <<"WinDirStat">>
ColTitle(f) ==
    CASE f = FIELD_NAME -> <<"Name">>
      [] f = FIELD_FILES -> <<"Files">>
      [] f = FIELDS_FOLDERS -> <<"Folders">>
      [] f = FIELD_SIZE_LOGICAL -> <<"Logical Size">>
      [] f = FIELD_SIZE_PHYSICAL -> <<"Physical Size">>
      [] f = FIELD_ATTRIBUTES -> <<"Attributes">>
      [] f = FIELD_LASTCHANGE -> <<"Last Change">>
      [] f = FIELD_ATTRIBUTES_WDS -> AppTitle \o <<" ">> \o <<"Attributes">>
      [] f = FIELD_OWNER -> <<"Owner">>

\* resMap of ParseHeaderLine, lines 56-67: the field a title stands for,
\* -1 for a title it does not hold
ResMap(title) ==
    IF \E f \in 0..(FIELD_COUNT - 1) : ColTitle(f) = title
    THEN CHOOSE f \in 0..(FIELD_COUNT - 1) : ColTitle(f) = title
    ELSE 0 - 1

\* Variant of ParseHeaderLine: the columns are taken to stand in the
\* writer's order, whatever the titles say.
ParseHeaderLineFixed(header) ==
    [f \in 0..(FIELD_COUNT - 1) |-> IF f < Len(header) THEN f ELSE 0 - 1]

\* ParseHeaderLine, lines 52-73: every field starts at -1 and gets the
\* column (counted from 0) of the last header entry that carries its title
ParseHeaderLine(header) ==
    [f \in 0..(FIELD_COUNT - 1) |->
        IF \E c \in 1..Len(header) : ResMap(header[c]) = f
        THEN (CHOOSE c \in 1..Len(header) :
                 /\ ResMap(header[c]) = f
                 /\ \A d \in (c + 1)..Len(header) : ResMap(header[d]) # f) - 1
        ELSE 0 - 1]

\* Variant of HeaderIncomplete: the OWNER column is required, too.
HeaderIncompleteOwner(om) ==
    \E i \in 0..(FIELD_COUNT - 1) : om[i] = 0 - 1
\* lines 157-161: a field other than OWNER has no column
HeaderIncomplete(om) ==
    \E i \in 0..(FIELD_COUNT - 1) : i # FIELD_OWNER /\ om[i] = 0 - 1

\* a line from its fields
RECURSIVE JoinFields(_)
JoinFields(fs) ==
    IF fs = <<>> THEN <<>>
    ELSE IF Len(fs) = 1 THEN fs[1]
    ELSE fs[1] \o <<Comma>> \o JoinFields(Tail(fs))

\* SaveResults, lines 231-252: the columns of the header
HeaderCols(owner) ==
    [f \in 1..(IF owner THEN 9 ELSE 8) |-> QuoteAndConvert(ColTitle(f - 1))]

\* SaveResults, lines 263-279: the fields of the row of item i
RowFields(t, i, owner) ==
    LET qitem == t[i]
        nonPathItem ==
            IsType(qitem.type, IT_MYCOMPUTER + IT_UNKNOWN + IT_FREESPACE)
    IN <<QuoteAndConvert(IF nonPathItem THEN qitem.name ELSE GetPath(t, i)),
         FormatDec(qitem.files),
         FormatDec(qitem.folders),
         FormatDec(qitem.sizeLogical),
         FormatDec(qitem.sizePhysical),
         <<"0", "x">> \o FormatHex(qitem.attributes, 8),
         FormatTime(qitem.lastChange),
         <<"0", "x">> \o FormatHex(qitem.type % 65536, 4)>>
       \o (IF owner THEN <<QuoteAndConvert(<<"o", "w">>)>> ELSE <<>>)

\* ------------------------------------------------------------ SaveResults
\* The file is held as its lines, a line as its fields (the text between
\* two separating commas); LoadResults reads a line as the characters of its
\* fields joined by commas.  The writer ends a line with CR LF and the
\* reader, in text mode, gets it without them.

\* lines 227-256: the header line, and the stack holding the item to save
SaveOpen ==
    /\ cpc = "start"
    /\ outf' = <<HeaderCols(ShowColumnOwner)>>
    /\ queue' = <<1>>
    /\ cpc' = "save"
    /\ UNCHANGED <<qallvars, uvars, tree, ShowColumnOwner, written, edit,
                   linesRead, headerProcessed, orderMap, newroot, items,
                   parentMap, result>>

\* Variant of SaveItem: the items wait in a queue, first in first out.
SaveItemFifo ==
    /\ cpc = "save"
    /\ queue # <<>>
    /\ LET qitem == queue[1]
           rest == Tail(queue)
       IN /\ outf' = Append(outf, RowFields(tree, qitem, ShowColumnOwner))
          /\ written' = Append(written, qitem)
          /\ queue' = IF IsType(tree[qitem].type, IT_FILE) THEN rest
                      ELSE rest \o GetChildren(tree, qitem)
    /\ UNCHANGED <<qallvars, uvars, tree, ShowColumnOwner, edit, linesRead,
                   headerProcessed, orderMap, newroot, items, parentMap,
                   cpc, result>>

\* lines 257-290: one turn of the loop, the row of the item on top of the
\* stack; the children of an item that is no file go onto the stack
SaveItem ==
    /\ cpc = "save"
    /\ queue # <<>>
    /\ LET qitem == queue[Len(queue)]
           rest == SubSeq(queue, 1, Len(queue) - 1)
       IN /\ outf' = Append(outf, RowFields(tree, qitem, ShowColumnOwner))
          /\ written' = Append(written, qitem)
          /\ queue' = IF IsType(tree[qitem].type, IT_FILE) THEN rest
                      ELSE rest \o GetChildren(tree, qitem)
    /\ UNCHANGED <<qallvars, uvars, tree, ShowColumnOwner, edit, linesRead,
                   headerProcessed, orderMap, newroot, items, parentMap,
                   cpc, result>>

\* lines 292-293
SaveClose ==
    /\ cpc = "save"
    /\ queue = <<>>
    /\ cpc' = "saved"
    /\ UNCHANGED <<qallvars, uvars, tree, ShowColumnOwner, outf, queue,
                   written, edit, linesRead, headerProcessed, orderMap,
                   newroot, items, parentMap, result>>

\* ------------------------------------------------- the file between runs
\* What somebody else may have done to the file before it is loaded.
RemoveAt(q, k) == SubSeq(q, 1, k - 1) \o SubSeq(q, k + 1, Len(q))
Swap(q, i, j) ==
    [k \in 1..Len(q) |-> IF k = i THEN q[j] ELSE IF k = j THEN q[i] ELSE q[k]]
\* the columns of the header and the data rows of the file as saved
NumCols == IF outf = <<>> THEN 0 ELSE Len(outf[1])
NumRows == IF outf = <<>> THEN 0 ELSE Len(outf) - 1

EditFile(kind, a, b, newfile) ==
    /\ cpc = "saved"
    /\ outf' = newfile
    /\ edit' = <<kind, a, b>>
    /\ cpc' = "edited"
    /\ UNCHANGED <<qallvars, uvars, tree, ShowColumnOwner, queue, written,
                   linesRead, headerProcessed, orderMap, newroot, items,
                   parentMap, result>>

\* column c is cut out of the header and of every row
DropColumn(c) ==
    EditFile("drop", c, 0, [l \in 1..Len(outf) |-> RemoveAt(outf[l], c)])

\* columns i and j change places in the header and in every row
SwapColumns(i, j) ==
    EditFile("swap", i, j, [l \in 1..Len(outf) |-> Swap(outf[l], i, j)])

\* the columns are rotated by one place
RotateColumns ==
    EditFile("rotate", 0, 0,
             [l \in 1..Len(outf) |-> Tail(outf[l]) \o <<Head(outf[l])>>])

\* row r loses the closing quote of its first field
Unterminate(r) ==
    EditFile("unterminate", r, 0,
             [outf EXCEPT ![r + 1][1] = SubSeq(@, 1, Len(@) - 1)])

\* row r keeps only its first k fields
TruncateRow(r, k) ==
    EditFile("truncate", r, k, [outf EXCEPT ![r + 1] = SubSeq(@, 1, k)])

\* row r is cut out of the file
DeleteRow(r) ==
    EditFile("delete", r, 0, RemoveAt(outf, r + 1))

\* the rows of drives carry the path without its trailing backslash
DriveWithoutBackslash ==
    EditFile("drive", 0, 0,
             [l \in 1..Len(outf) |->
                 IF outf[l][1] = QuoteAndConvert(DriveC)
                 THEN [outf[l] EXCEPT ![1] =
                          QuoteAndConvert(StripBackslash(DriveC))]
                 ELSE outf[l]])

\* the titles of the header stand without their quotes
UnquoteHeader ==
    EditFile("unquote", 0, 0,
             [outf EXCEPT ![1] =
                 [c \in 1..Len(@) |-> SubSeq(@[c], 2, Len(@[c]) - 1)]])

\* ------------------------------------------------------------ LoadResults
\* the C string held by a wide string: the characters before its first NUL
CStr(s) ==
    IF Find(s, NUL, 1) = 0 THEN s ELSE SubSeq(s, 1, Find(s, NUL, 1) - 1)

\* fields[n] with n past the end of the vector is undefined: the read ends
\* the process, or it yields whatever lies behind the vector.
Crash == <<"crash">>
Garbage == {<<>>, <<"9">>}

\* LoadResults returns r, or the process ends with r
LoadEnds(r) ==
    /\ result' = r
    /\ cpc' = "done"
    /\ UNCHANGED <<headerProcessed, orderMap, newroot, items, parentMap>>

\* "continue": the loop goes on to the next line
LoadContinues ==
    UNCHANGED <<headerProcessed, orderMap, newroot, items, parentMap, cpc,
                result>>

\* lines 151-163: the first line that is not empty is the header
LoadHeader(fields) ==
    LET om == ParseHeaderLine(fields)
    IN IF HeaderIncomplete(om)
       THEN /\ result' = "nullptr"
            /\ cpc' = "done"
            /\ headerProcessed' = TRUE
            /\ orderMap' = om
            /\ UNCHANGED <<newroot, items, parentMap>>
       ELSE /\ headerProcessed' = TRUE
            /\ orderMap' = om
            /\ UNCHANGED <<newroot, items, parentMap, cpc, result>>

\* lines 165-213: a data row; g is what a read past the end of fields
\* gives, debug whether the build compiles ASSERT in
LoadRow(fields, g, debug) ==
    LET InRange(f) == orderMap[f] + 1 \in 1..Len(fields)
        Field(f) == IF InRange(f) THEN fields[orderMap[f] + 1] ELSE g
        type == ParseUnsigned(Field(FIELD_ATTRIBUTES_WDS), 16) % 65536
        isRoot == IsType(type, ITF_ROOTITEM)
        isInRoot == IsType(type, IT_DRIVE) \/ IsType(type, IT_UNKNOWN)
                    \/ IsType(type, IT_FREESPACE)
        useFullPath == isRoot \/ isInRoot
        mapPath == Field(FIELD_NAME)
        cname == CStr(Field(FIELD_NAME))
        slash == FindLast(cname, Backslash)
        nullName == ~useFullPath /\ slash = 0
        displayName == IF useFullPath THEN cname
                       ELSE SubSeq(cname, slash + 1, Len(cname))
        lookupPath == IF useFullPath \/ slash = 0 THEN cname
                      ELSE SubSeq(cname, 1, slash - 1)
        found == lookupPath \in DOMAIN parentMap
        parent == IF isRoot THEN 0
                  ELSE IF isInRoot THEN newroot
                  ELSE IF found THEN parentMap[lookupPath]
                  ELSE 0
        newitem ==
            CItem(type, displayName, parent,
                  FromTimeString(Field(FIELD_LASTCHANGE)),
                  ParseUnsigned(Field(FIELD_SIZE_PHYSICAL), 10),
                  ParseUnsigned(Field(FIELD_SIZE_LOGICAL), 10),
                  ParseUnsigned(Field(FIELD_ATTRIBUTES), 16),
                  ParseUnsigned(Field(FIELD_FILES), 10),
                  ParseUnsigned(Field(FIELDS_FOLDERS), 10))
        idx == Len(items) + 1
        mapped == IF ~TmiIsLeaf(type) /\ GetItemsCount(newitem) > 0
                  THEN IF IsType(type, IT_DRIVE)
                       THEN (SubSeq(mapPath, 1, 2) :> idx)
                            @@ (mapPath :> idx) @@ parentMap
                       ELSE (mapPath :> idx) @@ parentMap
                  ELSE parentMap
    IN IF g = Crash \/ nullName \/ (~isRoot /\ isInRoot /\ newroot = 0)
       THEN LoadEnds("crash")
       ELSE IF ~isRoot /\ ~isInRoot /\ ~found /\ debug
       THEN LoadEnds("assert")
       ELSE /\ items' = Append(items, newitem)
            /\ newroot' = IF isRoot THEN idx ELSE newroot
            /\ parentMap' = mapped
            /\ UNCHANGED <<headerProcessed, orderMap, cpc, result>>

\* some field that the row decoding reads lies past the end of fields
PastEnd(fields) ==
    \E f \in 0..(FIELD_COUNT - 1) :
        f # FIELD_OWNER /\ orderMap[f] + 1 > Len(fields)

\* lines 111-119: the file is open, the locals are set up
LoadOpen ==
    /\ cpc \in {"saved", "edited"}
    /\ cpc' = "load"
    /\ UNCHANGED <<qallvars, uvars, tree, ShowColumnOwner, outf, queue,
                   written, edit, linesRead, headerProcessed, orderMap,
                   newroot, items, parentMap, result>>

\* lines 120-214: one turn of the loop over the lines
LoadLine ==
    /\ cpc = "load"
    /\ linesRead < Len(outf)
    /\ linesRead' = linesRead + 1
    /\ LET linebuf == JoinFields(outf[linesRead + 1])
           parsed == ParseFields(WideLine(linebuf), 1, <<>>)
       IN IF linebuf = <<>> THEN LoadContinues
          ELSE IF ~parsed[1] THEN LoadEnds("nullptr")
          ELSE IF ~headerProcessed THEN LoadHeader(parsed[2])
          ELSE IF PastEnd(parsed[2])
          THEN \E g \in Garbage \cup {Crash} :
                   \E debug \in BOOLEAN : LoadRow(parsed[2], g, debug)
          ELSE \E debug \in BOOLEAN : LoadRow(parsed[2], <<>>, debug)
    /\ UNCHANGED <<qallvars, uvars, tree, ShowColumnOwner, outf, queue,
                   written, edit>>

\* lines 216-222: the children are sorted, which moves no item to another
\* parent, and newroot is returned
LoadReturn ==
    /\ cpc = "load"
    /\ linesRead = Len(outf)
    /\ result' = IF newroot = 0 THEN "nullptr" ELSE "tree"
    /\ cpc' = "done"
    /\ UNCHANGED <<qallvars, uvars, tree, ShowColumnOwner, outf, queue,
                   written, edit, linesRead, headerProcessed, orderMap,
                   newroot, items, parentMap>>

\* ---------------------------------------------------- codec specification
\* A tree is saved with either setting of the owner column; the file is
\* loaded as it is or after one edit.
CsvInit ==
    /\ QueueInit
    /\ FrameIdle
    /\ SplitIdle
    /\ InvokeIdle
    /\ tree \in Trees
    /\ ShowColumnOwner \in BOOLEAN
    /\ outf = <<>>
    /\ queue = <<>>
    /\ written = <<>>
    /\ edit = <<"none">>
    /\ linesRead = 0
    /\ headerProcessed = FALSE
    /\ orderMap = <<>>
    /\ newroot = 0
    /\ items = <<>>
    /\ parentMap = <<>>
    /\ cpc = "start"
    /\ result = "none"

CsvNext ==
    \/ SaveOpen
    \/ SaveItem
    \/ SaveClose
    \/ \E c \in 1..NumCols : DropColumn(c)
    \/ \E i \in 1..NumCols : \E j \in (i + 1)..NumCols : SwapColumns(i, j)
    \/ RotateColumns
    \/ \E r \in 1..NumRows : Unterminate(r)
    \/ \E r \in 1..NumRows : \E k \in 1..(NumCols - 1) : TruncateRow(r, k)
    \/ \E r \in 1..NumRows : DeleteRow(r)
    \/ DriveWithoutBackslash
    \/ UnquoteHeader
    \/ LoadOpen
    \/ LoadLine
    \/ LoadReturn

CsvSpec == CsvInit /\ [][CsvNext]_vars

\* ------------------------------------------------- splitter specification
\* The splitter alone, on every short line over a letter, the comma and the
\* double quote.  An empty line never reaches it (line 124).
MaxLen == 4
LineChars == {"a", Comma, Quote}
Lines == UNION {[1..n -> LineChars] : n \in 1..MaxLen}

\* lines 125-149: the line is widened and split; line 143 ends the load
SplitLine ==
    /\ spc = "line"
    /\ LET r == ParseFields(WideLine(sline), 1, <<>>)
       IN /\ sfields' = r[2]
          /\ spc' = IF r[1] THEN "fields" ELSE "nullptr"
    /\ UNCHANGED <<qallvars, cvars, fvars, ivars, sline>>

SplitInit ==
    /\ QueueInit
    /\ CsvIdle
    /\ FrameIdle
    /\ InvokeIdle
    /\ sline \in Lines
    /\ sfields = <<>>
    /\ spc = "line"

SplitNext == SplitLine

SplitSpec == SplitInit /\ [][SplitNext]_vars

\* ------------------------------------------------------- codec claims
\* position in the file of the row of item i of the tree, 0 for no item
RowOf(i) ==
    IF \E k \in 1..Len(written) : written[k] = i
    THEN CHOOSE k \in 1..Len(written) : written[k] = i
    ELSE 0

\* the k-th item created by LoadResults is the k-th item saved: same name,
\* path, counts, sizes, attributes, time and type
SameFields(k) ==
    LET o == tree[written[k]]
        l == items[k]
    IN /\ l.name = o.name
       /\ GetPath(items, k) = GetPath(tree, written[k])
       /\ l.files = o.files
       /\ l.folders = o.folders
       /\ l.sizeLogical = o.sizeLogical
       /\ l.sizePhysical = o.sizePhysical
       /\ l.attributes = o.attributes
       /\ l.lastChange = o.lastChange
       /\ l.type = o.type

\* the k-th item created by LoadResults hangs under the item created for
\* the parent of the k-th item saved
SameParent(k) == items[k].parent = RowOf(tree[written[k]].parent)

\* LoadResults has returned from the file as SaveResults wrote it
LoadedAsSaved == cpc = "done" /\ edit = <<"none">>

\* every item of the tree has its row and every row its item, with the
\* fields it was saved with
LoadedFields ==
    /\ result = "tree"
    /\ newroot = 1
    /\ Len(items) = Len(tree)
    /\ \A k \in 1..Len(items) : SameFields(k)

\* C16: LoadResults(SaveResults(tree)) has the items of tree, every item
\* under the same parent and with the same name, path, counts, sizes,
\* attributes, time and type.
C16_RoundTrip ==
    LoadedAsSaved =>
        /\ LoadedFields
        /\ \A k \in 1..Len(items) : SameParent(k)

\* the column of the file as saved that holds field f
ColumnOf(f) == f + 1

\* C17: LoadResults returns nullptr at the header, with no item created,
\* when the header lacks one of the eight required columns; a header with
\* the eight and no OWNER column is accepted and the rows are loaded,
\* whether its titles stand in quotes or not.
C17_HeaderColumns ==
    /\ (cpc = "done" /\ edit[1] = "unquote") =>
           /\ result = "tree"
           /\ Len(items) = Len(tree)
    /\ (cpc = "done" /\ edit[1] = "drop" /\ edit[2] # ColumnOf(FIELD_OWNER)) =>
           /\ result = "nullptr"
           /\ linesRead = 1
           /\ items = <<>>
           /\ newroot = 0
    /\ (cpc = "done" /\ edit[1] = "drop" /\ edit[2] = ColumnOf(FIELD_OWNER)) =>
           /\ result = "tree"
           /\ Len(items) = Len(tree)
    /\ (LoadedAsSaved /\ ~ShowColumnOwner) =>
           /\ result = "tree"
           /\ Len(items) = Len(tree)
    /\ (headerProcessed /\ HeaderIncomplete(orderMap)) =>
           result = "nullptr" /\ items = <<>>

C17_Witness ==
    /\ cpc = "done"
    /\ edit = <<"drop", ColumnOf(FIELD_LASTCHANGE), 0>>
    /\ ShowColumnOwner
    /\ Len(outf) > 1
    /\ result = "nullptr"

\* the four kinds of malformed row, as edits of a saved file
UnterminatedQuote == edit[1] = "unterminate"
ShortRow == edit[1] = "truncate" /\ edit[3] < FIELD_COUNT - 1
NoRootRow == edit = <<"delete", 1, 0>>
OrphanRow ==
    /\ edit[1] = "delete"
    /\ edit[2] > 1
    /\ \E c \in 1..Len(tree) :
           /\ tree[c].parent = written[edit[2]]
           /\ tree[c].type \in {IT_DIRECTORY, IT_FILE}

\* C18: LoadResults returns nullptr for a file with a malformed row: a row
\* with an unterminated quoted field, a row with fewer fields than the
\* required columns, a non-root row before any root row, or a row whose
\* parent path matches no loaded item.
C18_MalformedRowAborts ==
    (cpc = "done" /\ (UnterminatedQuote \/ ShortRow \/ NoRootRow \/ OrphanRow))
        => result = "nullptr"

\* the parent LoadResults gives the k-th row of the file in the writer's
\* order: the root for a row of a drive or of a pseudo item, else the item
\* of the row of the parent
CanonicalParent(k) ==
    LET o == tree[written[k]]
    IN IF o.parent = 0 THEN 0
       ELSE IF IsType(o.type, IT_DRIVE + IT_UNKNOWN + IT_FREESPACE) THEN 1
       ELSE RowOf(o.parent)

\* LoadResults has returned from a file whose columns were permuted
LoadedPermuted == cpc = "done" /\ edit[1] \in {"swap", "rotate"}

\* C19: with the columns of the header and of every row permuted the same
\* way, LoadResults builds the tree it builds from the file in the writer's
\* column order: the same items with the same fields under the same parents.
C19_ColumnOrderFree ==
    (LoadedAsSaved \/ LoadedPermuted) =>
        /\ LoadedFields
        /\ \A k \in 1..Len(items) : items[k].parent = CanonicalParent(k)

C19_Witness ==
    /\ cpc = "done"
    /\ edit = <<"swap", ColumnOf(FIELD_SIZE_LOGICAL),
                ColumnOf(FIELD_SIZE_PHYSICAL)>>
    /\ orderMap[FIELD_SIZE_LOGICAL] = FIELD_SIZE_PHYSICAL
    /\ \E k \in 1..Len(items) :
           /\ items[k].sizeLogical # items[k].sizePhysical
           /\ items[k].sizeLogical = tree[written[k]].sizeLogical
    /\ result = "tree"

\* the NAME field of the k-th data row as LoadResults reads it
RowName(k) ==
    CStr(ParseFields(WideLine(JoinFields(outf[k + 1])), 1, <<>>)[2]
            [orderMap[FIELD_NAME] + 1])

\* a path without its last component
ParentPath(path) ==
    IF FindLast(path, Backslash) = 0 THEN path
    ELSE SubSeq(path, 1, FindLast(path, Backslash) - 1)

\* the item created for the k-th data row hangs where the rule puts it
AttachedByRule(k) ==
    LET type == items[k].type
        p == items[k].parent
    IN IF IsType(type, ITF_ROOTITEM) THEN p = 0
       ELSE IF IsType(type, IT_DRIVE + IT_UNKNOWN + IT_FREESPACE)
       THEN p \in 1..(k - 1) /\ IsType(items[p].type, ITF_ROOTITEM)
       ELSE /\ p \in 1..(k - 1)
            /\ \/ RowName(p) = ParentPath(RowName(k))
               \/ /\ IsType(items[p].type, IT_DRIVE)
                  /\ RowName(p) = ParentPath(RowName(k)) \o <<Backslash>>

\* C20: every item LoadResults creates for a non-root row has one parent:
\* the root for a row of a drive, an unknown or a free-space item, else the
\* item loaded before it whose path is the row's path without its last
\* component, a drive being found with or without its trailing backslash.
C20_Attachment == \A k \in 1..Len(items) : AttachedByRule(k)

\* item a of the saved tree is item i or lies above it
RECURSIVE InSubtree(_, _)
InSubtree(a, i) ==
    IF i = a THEN TRUE
    ELSE IF tree[i].parent = 0 THEN FALSE
    ELSE InSubtree(a, tree[i].parent)

\* the rows of the subtree of item a follow the row of a without a gap
Contiguous(a) ==
    LET n == Cardinality({i \in 1..Len(tree) : InSubtree(a, i)})
    IN \A i \in 1..Len(tree) :
           InSubtree(a, i) <=> RowOf(i) \in RowOf(a)..(RowOf(a) + n - 1)

\* SaveResults has written its last row
SavedAll == cpc \notin {"start", "save"}

\* C21: SaveResults writes one row for every item of the tree, each once,
\* in depth-first pre-order: the row of an item comes before the rows of
\* its descendants, the rows of a subtree are contiguous, and the turn of
\* the loop that writes a file pushes nothing.
C21_PreOrder ==
    /\ \A j, k \in 1..Len(written) : written[j] = written[k] => j = k
    /\ cpc \in {"save", "saved"} => Len(outf) = Len(written) + 1
    /\ SavedAll =>
           /\ {written[k] : k \in 1..Len(written)} = 1..Len(tree)
           /\ written[1] = 1
           /\ \A i \in 2..Len(tree) : RowOf(tree[i].parent) < RowOf(i)
           /\ \A a \in 1..Len(tree) : Contiguous(a)
    /\ (cpc = "save" /\ written # <<>>
        /\ IsType(tree[written[Len(written)]].type, IT_FILE)) =>
           \A q \in 1..Len(queue) :
               tree[queue[q]].parent # written[Len(written)]

C21_Witness ==
    /\ cpc = "saved"
    /\ Len(written) = 5
    /\ \E i \in 1..Len(tree) :
           /\ tree[i].parent # 0
           /\ tree[tree[i].parent].parent # 0
           /\ \E j \in 1..Len(tree) :
                  /\ tree[j].parent = tree[tree[i].parent].parent
                  /\ j # tree[i].parent
                  /\ RowOf(j) < RowOf(tree[i].parent)

\* ------------------------------------------------- the queue's lifecycle
\* the step that is StartThreads
StartThreadsRuns == pc[Coord] = "c_idle" /\ pc'[Coord] = "c_run"

\* C24: StartThreads resets m_WorkersWaiting, m_Started, m_Suspended and
\* m_Cancelled, sets the worker count and leaves the queue as it is; a task
\* leaves the queue only by being handed out by Pop, or when a
\* CancelExecution clears the queue.
C24_StartKeepsQueue ==
    [][/\ StartThreadsRuns =>
              /\ m_Queue' = m_Queue
              /\ m_WorkersWaiting' = 0
              /\ ~m_Started' /\ ~m_Suspended' /\ ~m_Cancelled'
              /\ m_TotalWorkerThreads' = Cardinality(m_Threads')
              /\ m_Threads' # {}
       /\ \A t \in Elems(m_Queue) \ Elems(m_Queue') :
              \/ \E w \in Workers : PopReturns(w) /\ cur'[w] = t
              \/ CancelReturns]_vars

C24_Witness ==
    /\ pushed = MaxTasks
    /\ m_Queue = <<>>
    /\ ~m_Cancelled
    /\ pc[Shell] = "s_idle"
    /\ \A t \in Tasks : handed[t] = 1
    /\ \A w \in Workers : pc[w] # "task"
    /\ m_Threads # {}

\* C25: when CancelExecution returns, the queue is empty, m_Started,
\* m_Suspended and m_Cancelled are false, m_WorkersWaiting is 0 and no worker
\* thread exists; afterwards Pop hands out only what is in the queue and the
\* queue gains only newly pushed tasks, so no task of the cancelled scan is
\* handed out in a later lifecycle.
C25_CancelLeavesIdle ==
    [][/\ CancelReturns =>
              /\ m_Queue' = <<>>
              /\ ~m_Started' /\ ~m_Suspended' /\ ~m_Cancelled'
              /\ m_WorkersWaiting' = 0
              /\ m_Threads' = {}
              /\ \A w \in Workers : pc'[w] \in {"none", "done"}
       /\ \A w \in Workers : PopReturns(w) => cur'[w] \in Elems(m_Queue)
       /\ Elems(m_Queue') \ Elems(m_Queue) \subseteq {pushed + 1}
       /\ pushed' >= pushed]_vars

C25_Witness ==
    /\ pushed = MaxTasks
    /\ handed[1] = 0
    /\ handed[MaxTasks] = 1
    /\ m_Queue = <<>>
    /\ m_Threads # {}
    /\ ~m_Cancelled
    /\ pc[Shell] = "s_idle"

\* C26: under fair scheduling a call of SuspendExecution that has blocked
\* eventually returns, in whatever state of the lifecycle it was made.
C26_SuspendReturns ==
    (pc[Shell] = "suspend_wait") ~> (pc[Shell] = "s_idle")

\* worker w leaves through the handler of ThreadWrapper in this step
CatchRuns(w) == pc[w] = "catch" /\ pc'[w] = "done"

\* C27: a worker that ends by the exception of Pop or WaitIfSuspended is not
\* counted while it unwinds and is counted once by the handler, which wakes
\* the waiters of m_Waiting; when all workers have ended this way and the
\* queue is not yet reset, m_WorkersWaiting equals m_TotalWorkerThreads, the
\* condition SuspendExecution waits for.
C27_ExitedCounted ==
    /\ [][\A w \in Workers :
              CatchRuns(w) =>
                  /\ m_WorkersWaiting' = m_WorkersWaiting + 1
                  /\ m_WorkersWaiting' <= m_TotalWorkerThreads
                  /\ m_Waiting' = {}]_vars
    /\ [](\A w \in Workers : pc[w] = "catch" => w \notin Counted)
    /\ []((m_Threads # {} /\ \A w \in m_Threads : pc[w] = "done") =>
              /\ m_WorkersWaiting = m_TotalWorkerThreads
              /\ AllThreadsIdling)

C27_Witness ==
    /\ m_Threads = Workers
    /\ \A w \in Workers : pc[w] = "done"
    /\ m_WorkersWaiting = MaxWorkers
    /\ m_Cancelled
    /\ pc[Shell] = "cancel_join"

\* ------------------------------------- main frame, src/windirstat/MainFrame.cpp
\* The members of CMainFrame that hold the progress and the taskbar state
\* are the fields of frame; m_Progress and m_Pacman tell whether the control
\* has a window, m_TaskbarList whether the interface was obtained,
\* m_WorkingItem whether the pointer is set, titlePercent the percentage
\* put into the title prefix.  Every member function is a function from the
\* frame before the call to the frame after it; all of them run on the
\* shell thread.

MaxRange == 2
Ranges == 0..MaxRange
\* CItem::GetProgressPos is the size scanned so far, which the capacity of
\* the drives does not bound
Positions == 0..(MaxRange + 1)

BitOr(a, b) == a + b - BitAnd(a, b)

\* lines 534-547
CreateStatusProgress(f) ==
    [f EXCEPT !.m_Progress = TRUE,
              !.m_TaskbarButtonState =
                  IF f.m_TaskbarList THEN TBPF_INDETERMINATE ELSE @]

\* lines 549-559
CreatePacmanProgress(f) == [f EXCEPT !.m_Pacman = TRUE]

\* Variant of ForcedRange: one exclusion option set is enough to keep range.
ForcedRangeAny(range) ==
    IF ~ExcludeVolumeMountPoints /\ ~ExcludeJunctions /\ ~ExcludeSymbolicLinks
    THEN 0 ELSE range
\* lines 409-416: the range CreateProgress goes on with
ForcedRange(range) ==
    IF ~ExcludeVolumeMountPoints \/ ~ExcludeJunctions \/ ~ExcludeSymbolicLinks
    THEN 0 ELSE range

\* lines 407-429
CreateProgress(f, range) ==
    LET f1 == [f EXCEPT !.m_ProgressRange = ForcedRange(range),
                        !.m_ProgressPos = 0,
                        !.m_ProgressVisible = TRUE]
    IN IF ForcedRange(range) > 0 THEN CreateStatusProgress(f1)
       ELSE CreatePacmanProgress(f1)

\* lines 561-577
DestroyProgress(f) ==
    [f EXCEPT !.m_Progress = FALSE,
              !.m_Pacman = IF f.m_Progress THEN @ ELSE FALSE,
              !.m_WorkingItem = FALSE,
              !.m_ProgressVisible = FALSE]

\* line 504: the percentage, computed in 64 bits and cast to int
Percent(pos, range) == (pos * 100) \div range

\* lines 479-532
UpdateProgress(f) ==
    LET f1 == [f EXCEPT !.m_WorkingItem = m_RootItem # NoItem]
        f2 == IF m_RootItem # NoItem /\ ~m_RootItem.done
              THEN CreateProgress(f1, m_RootItem.range)
              ELSE f1
    IN IF ~f2.m_ProgressVisible \/ ~f2.m_WorkingItem THEN f2
       ELSE LET f3 == [f2 EXCEPT !.m_ProgressPos = m_RootItem.pos]
                pos == Percent(f3.m_ProgressPos, f3.m_ProgressRange)
            IN IF f3.m_ProgressRange > 0 /\ f3.m_Progress
               THEN [f3 EXCEPT
                       !.titlePercent = pos,
                       !.m_TaskbarButtonState =
                           IF f3.m_TaskbarList /\ @ # TBPF_PAUSED
                           THEN IF pos = 100 THEN TBPF_INDETERMINATE
                                ELSE TBPF_NORMAL
                           ELSE @]
               ELSE [f3 EXCEPT !.titlePercent = NoPercent]

\* lines 431-440
SetProgressPos(f, pos) ==
    UpdateProgress(
        [f EXCEPT !.m_ProgressPos =
            IF f.m_ProgressRange > 0 /\ pos > f.m_ProgressRange
            THEN f.m_ProgressRange ELSE pos])

\* lines 442-453
SetProgressComplete(f) ==
    [DestroyProgress(
        [f EXCEPT !.m_TaskbarButtonState =
                      IF f.m_TaskbarList THEN TBPF_NOPROGRESS ELSE @])
     EXCEPT !.titlePercent = NoPercent]

\* lines 460-477
SuspendState(f, suspend) ==
    LET f1 == [f EXCEPT !.m_ScanSuspend = suspend]
        f2 == IF ~f1.m_TaskbarList THEN f1
              ELSE IF f1.m_TaskbarButtonState = TBPF_PAUSED
              THEN [f1 EXCEPT !.m_TaskbarButtonState =
                                  f1.m_TaskbarButtonPreviousState]
              ELSE [f1 EXCEPT !.m_TaskbarButtonPreviousState =
                                  f1.m_TaskbarButtonState,
                              !.m_TaskbarButtonState =
                                  BitOr(f1.m_TaskbarButtonState, TBPF_PAUSED)]
    IN UpdateProgress(f2)

\* CDirStatDoc::IsRootDone
IsRootDone == m_RootItem # NoItem /\ m_RootItem.done

\* ---- the calls of the shell thread
FrameCall(f) ==
    /\ frame' = f
    /\ UNCHANGED <<qallvars, cvars, svars, ivars, m_RootItem,
                   ExcludeVolumeMountPoints, ExcludeJunctions,
                   ExcludeSymbolicLinks>>

CallCreateProgress(range) == FrameCall(CreateProgress(frame, range))
CallSetProgressPos(pos) == FrameCall(SetProgressPos(frame, pos))
CallSetProgressComplete == FrameCall(SetProgressComplete(frame))
CallSuspendState(suspend) == FrameCall(SuspendState(frame, suspend))

\* lines 394-405: the taskbar button exists, the interface is obtained
OnTaskButtonCreated ==
    /\ ~frame.m_TaskbarList
    /\ FrameCall([frame EXCEPT !.m_TaskbarList = TRUE])

\* lines 818-827, the timer of line 677
OnTimer ==
    /\ ~IsRootDone
    /\ ~frame.m_ScanSuspend
    /\ FrameCall(UpdateProgress(frame))

\* ---- the document: a scan starts, goes on, ends, the document is closed
DocChange(item) ==
    /\ m_RootItem' = item
    /\ UNCHANGED <<qallvars, cvars, svars, ivars, frame,
                   ExcludeVolumeMountPoints, ExcludeJunctions,
                   ExcludeSymbolicLinks>>

DocNewRoot(range) ==
    /\ m_RootItem = NoItem
    /\ DocChange([done |-> FALSE, pos |-> 0, range |-> range])

DocScanned(pos) ==
    /\ m_RootItem # NoItem
    /\ ~m_RootItem.done
    /\ pos > m_RootItem.pos
    /\ DocChange([m_RootItem EXCEPT !.pos = pos])

DocRootDone ==
    /\ m_RootItem # NoItem
    /\ ~m_RootItem.done
    /\ DocChange([m_RootItem EXCEPT !.done = TRUE])

DocClose ==
    /\ m_RootItem # NoItem
    /\ DocChange(NoItem)

FrameInit ==
    /\ QueueInit
    /\ CsvIdle
    /\ SplitIdle
    /\ InvokeIdle
    /\ frame = FrameConstructed
    /\ m_RootItem = NoItem
    /\ ExcludeVolumeMountPoints \in BOOLEAN
    /\ ExcludeJunctions \in BOOLEAN
    /\ ExcludeSymbolicLinks \in BOOLEAN

FrameNext ==
    \/ \E range \in Ranges : CallCreateProgress(range)
    \/ \E pos \in Positions : CallSetProgressPos(pos)
    \/ CallSetProgressComplete
    \/ \E suspend \in BOOLEAN : CallSuspendState(suspend)
    \/ OnTaskButtonCreated
    \/ OnTimer
    \/ \E range \in Ranges : DocNewRoot(range)
    \/ \E pos \in Positions : DocScanned(pos)
    \/ DocRootDone
    \/ DocClose

FrameSpec == FrameInit /\ [][FrameNext]_vars

\* ------------------------------------------- the message-thread trampoline
\* src/windirstat/MainFrame.cpp, lines 680-684 and 832-837.  A callback is
\* a call that starts and, a step later, ends; the run is entered in ranOn
\* when it starts and counted in executed when it ends.
MaxInvokes == 2
Callers == Workers \cup {Shell}

\* Variant of IsMessageThread: every caller is taken for the message thread.
IsMessageThreadAny(t) == TRUE
\* line 682: CDirStatApp::Get()->m_nThreadID == GetCurrentThreadId()
IsMessageThread(t) == t = Shell

InvokeStep(t, to) ==
    /\ ipc' = [ipc EXCEPT ![t] = to]
    /\ UNCHANGED <<qallvars, cvars, fvars, svars>>

\* line 682, first branch: the caller is the message thread, which is not
\* inside a handler; callback() starts on the caller
InvokeInline(t) ==
    /\ ipc[t] \in {"loop", "idle"}
    /\ invoked[t] < MaxInvokes
    /\ IsMessageThread(t)
    /\ invoked' = [invoked EXCEPT ![t] = @ + 1]
    /\ ranOn' = [ranOn EXCEPT ![t] = @ \cup {<<t, "inline">>}]
    /\ InvokeStep(t, "inline")
    /\ UNCHANGED <<sentMessages, handling, executed>>

\* line 682: callback() ends and InvokeInMessageThread returns
InlineReturn(t) ==
    /\ ipc[t] = "inline"
    /\ executed' = [executed EXCEPT ![t] = @ + 1]
    /\ InvokeStep(t, IF t = Shell THEN "loop" ELSE "idle")
    /\ UNCHANGED <<sentMessages, handling, invoked, ranOn>>

\* line 683: SendMessage(WM_CALLBACKUI, 0, &callback) from another thread;
\* the message waits for the message thread and the sender for the reply
InvokeSend(t) ==
    /\ ipc[t] = "idle"
    /\ invoked[t] < MaxInvokes
    /\ ~IsMessageThread(t)
    /\ invoked' = [invoked EXCEPT ![t] = @ + 1]
    /\ sentMessages' = Append(sentMessages, t)
    /\ InvokeStep(t, "SendMessage")
    /\ UNCHANGED <<handling, executed, ranOn>>

\* line 349, lines 832-835: the message loop hands the next sent message
\* to OnCallbackRequest, which starts the callback lParam points to
OnCallbackRequest ==
    /\ ipc[Shell] = "loop"
    /\ sentMessages # <<>>
    /\ handling' = Head(sentMessages)
    /\ sentMessages' = Tail(sentMessages)
    /\ ranOn' = [ranOn EXCEPT ![Head(sentMessages)] =
                    @ \cup {<<Shell, "WM_CALLBACKUI">>}]
    /\ InvokeStep(Shell, "OnCallbackRequest")
    /\ UNCHANGED <<invoked, executed>>

\* lines 835-836: the callback ends, the handler returns 0 and the reply
\* releases the sender
OnCallbackReturn ==
    /\ ipc[Shell] = "OnCallbackRequest"
    /\ executed' = [executed EXCEPT ![handling] = @ + 1]
    /\ ipc' = [ipc EXCEPT ![Shell] = "loop", ![handling] = "replied"]
    /\ handling' = NoThread
    /\ UNCHANGED <<qallvars, cvars, fvars, svars, sentMessages, invoked,
                   ranOn>>

\* line 683: SendMessage returns, and with it InvokeInMessageThread
SendReturn(t) ==
    /\ ipc[t] = "replied"
    /\ InvokeStep(t, "idle")
    /\ UNCHANGED <<sentMessages, handling, invoked, executed, ranOn>>

InvokeInit ==
    /\ QueueInit
    /\ CsvIdle
    /\ FrameIdle
    /\ SplitIdle
    /\ InvokeIdle

InvokeNext ==
    \/ \E t \in Callers : InvokeInline(t)
    \/ \E t \in Callers : InlineReturn(t)
    \/ \E t \in Callers : InvokeSend(t)
    \/ OnCallbackRequest
    \/ OnCallbackReturn
    \/ \E t \in Callers : SendReturn(t)

InvokeSpec == InvokeInit /\ [][InvokeNext]_vars

\* InvokeInMessageThread has returned to thread t, or was never called
Returned(t) == ipc[t] \in {"loop", "idle"}

\* C23: every callback passed to InvokeInMessageThread runs once, on the
\* shell thread, and has ended when InvokeInMessageThread returns: inline
\* for the shell thread as caller, in OnCallbackRequest for a worker.
C23_OnceOnShell ==
    \A t \in Callers :
        /\ executed[t] <= invoked[t]
        /\ Returned(t) => executed[t] = invoked[t]
        /\ ipc[t] = "replied" => executed[t] = invoked[t]
        /\ \A r \in ranOn[t] : r[1] = Shell
        /\ ranOn[t] \subseteq
               (IF t = Shell THEN {<<Shell, "inline">>}
                ELSE {<<Shell, "WM_CALLBACKUI">>})

C23_Witness ==
    /\ \A t \in Callers : Returned(t) /\ executed[t] = MaxInvokes
    /\ ranOn[Shell] = {<<Shell, "inline">>}
    /\ \A w \in Workers : ranOn[w] = {<<Shell, "WM_CALLBACKUI">>}

\* -------------------------------------------------------- splitter claims
\* The fields of a line by the rules of the file format, from position pos
\* with the fields found so far: a field that starts with a quote ends at
\* the next quote, which the end of the line or a comma follows; any other
\* field ends before the next comma or at the end of the line.  FALSE
\* stands for a line that is not of this form.
RECURSIVE TopLevelFields(_, _, _)
TopLevelFields(s, pos, fs) ==
    IF pos <= Len(s) /\ s[pos] = Quote
    THEN LET close == Find(s, Quote, pos + 1)
             field == SubSeq(s, pos + 1, close - 1)
         IN IF close = 0 THEN <<FALSE, fs>>
            ELSE IF close = Len(s) THEN <<TRUE, Append(fs, field)>>
            ELSE IF s[close + 1] = Comma
                 THEN TopLevelFields(s, close + 2, Append(fs, field))
                 ELSE <<FALSE, fs>>
    ELSE LET comma == Find(s, Comma, pos)
         IN IF comma = 0 THEN <<TRUE, Append(fs, SubSeq(s, pos, Len(s)))>>
            ELSE TopLevelFields(s, comma + 1,
                                Append(fs, SubSeq(s, pos, comma - 1)))

WellFormed(s) == TopLevelFields(s, 1, <<>>)[1]

\* C28: for a line of quoted and unquoted fields the splitter yields
\* exactly the fields between the top-level commas, one more than there
\* are such commas, empty ones included.
C28_Fields ==
    (spc # "line" /\ WellFormed(sline)) =>
        /\ spc = "fields"
        /\ sfields = TopLevelFields(sline, 1, <<>>)[2]

\* ------------------------------------------------------ main frame claims
AllExcluded ==
    ExcludeVolumeMountPoints /\ ExcludeJunctions /\ ExcludeSymbolicLinks

\* C22: CreateProgress(range) keeps range only when all three exclusion
\* options are set and takes 0 otherwise; with range 0 it creates the pacman
\* indicator, with a positive range the progress bar; it sets m_ProgressPos
\* to 0 in both cases.
C22_CreateProgress ==
    \A range \in Ranges :
        LET g == CreateProgress(frame, range)
        IN /\ g.m_ProgressRange = IF AllExcluded THEN range ELSE 0
           /\ g.m_ProgressPos = 0
           /\ g.m_ProgressVisible
           /\ g.m_ProgressRange = 0 =>
                  g.m_Pacman /\ g.m_Progress = frame.m_Progress
           /\ g.m_ProgressRange > 0 =>
                  g.m_Progress /\ g.m_Pacman = frame.m_Pacman

C22_Witness ==
    /\ AllExcluded
    /\ frame.m_ProgressRange = MaxRange
    /\ frame.m_ProgressPos = 0
    /\ frame.m_Progress
    /\ ~frame.m_Pacman
    /\ m_RootItem = NoItem

\* m_ProgressPos lies within a positive range, and so the percentage of
\* line 504 in 0..100
PosInRange(f) ==
    f.m_ProgressRange > 0 =>
        /\ f.m_ProgressPos <= f.m_ProgressRange
        /\ Percent(f.m_ProgressPos, f.m_ProgressRange) \in 0..100

\* C29: after every SetProgressPos and every UpdateProgress m_ProgressPos is
\* at most a positive m_ProgressRange, and the percentage of UpdateProgress
\* lies in 0..100.
C29_PosWithinRange ==
    /\ PosInRange(UpdateProgress(frame))
    /\ \A pos \in Positions : PosInRange(SetProgressPos(frame, pos))

\* the taskbar states a scan leaves behind when it is not suspended
PlainStates == {TBPF_NOPROGRESS, TBPF_INDETERMINATE, TBPF_NORMAL}

\* C30: with the taskbar list at hand, SuspendState(true) leaves the paused
\* state; a following SuspendState(false) leaves m_ScanSuspend false and the
\* taskbar state of before the suspend; a second call with the same argument
\* changes nothing.
C30_SuspendState ==
    (frame.m_TaskbarList /\ ~frame.m_ScanSuspend
     /\ frame.m_TaskbarButtonState \in PlainStates) =>
        LET s1 == SuspendState(frame, TRUE)
            s2 == SuspendState(s1, FALSE)
        IN /\ s1.m_ScanSuspend
           /\ s1.m_TaskbarButtonState = TBPF_PAUSED
           /\ ~s2.m_ScanSuspend
           /\ s2.m_TaskbarButtonState = frame.m_TaskbarButtonState
           /\ SuspendState(s1, TRUE) = s1
           /\ SuspendState(s2, FALSE) = s2

=============================================================================
